---- MODULE Spec2Model ----
(***************************************************************************)
(* Request-lifecycle payment state machine of the x402 Elysia plugin       *)
(* (paymentMiddlewareFromHTTPServer): onBeforeHandle verifies a payment,   *)
(* the route handler runs, onAfterHandle settles the payment and finalises *)
(* the outgoing response.                                                  *)
(*                                                                         *)
(* Text (bodies, reasons, messages) is a sequence of one-character         *)
(* strings, so that JSON encoding and substring containment are computed   *)
(* and not assumed.                                                        *)
(***************************************************************************)
EXTENDS Integers, Sequences, FiniteSets, TLC

\* Number of requests the server receives (they run concurrently, each
\* suspending at its awaits).
NumReq == 2

Reqs == 1..NumReq

----------------------------------------------------------------------------
(* Text                                                                    *)

\* needle occurs in hay as a contiguous substring (String.prototype.includes)
Contains(hay, needle) ==
  \E i \in 1..(Len(hay) - Len(needle) + 1) :
     SubSeq(hay, i, i + Len(needle) - 1) = needle

Digit(d) == <<"0", "1", "2", "3", "4", "5", "6", "7", "8", "9">>[d + 1]

RECURSIVE NumText(_)
\* decimal text of a natural number, as JSON.stringify writes it
NumText(n) == IF n < 10 THEN <<Digit(n)>>
              ELSE NumText(n \div 10) \o <<Digit(n % 10)>>

RECURSIVE Escape(_)
\* JSON string escaping of the quote and the backslash
Escape(s) ==
  IF s = <<>> THEN <<>>
  ELSE (IF Head(s) \in {"\"", "\\"} THEN <<"\\", Head(s)>> ELSE <<Head(s)>>)
       \o Escape(Tail(s))

Quote(s) == <<"\"">> \o Escape(s) \o <<"\"">>

----------------------------------------------------------------------------
(* JavaScript values a handler or an outcome can carry.                    *)
(*   t = "undefined" | "null" | "string" | "number" | "object"             *)
(*   s = the text of a string, n = the number, f = the entries of an       *)
(*   object, in insertion order, each <<key, value>>                       *)

JUndefined == [t |-> "undefined", s |-> <<>>, n |-> 0, f |-> <<>>]
JNull      == [t |-> "null", s |-> <<>>, n |-> 0, f |-> <<>>]
JStr(s)    == [t |-> "string", s |-> s, n |-> 0, f |-> <<>>]
JNum(n)    == [t |-> "number", s |-> <<>>, n |-> n, f |-> <<>>]
JObj(f)    == [t |-> "object", s |-> <<>>, n |-> 0, f |-> f]

\* v ?? d
Nullish(v) == v.t \in {"undefined", "null"}
Coalesce(v, d) == IF Nullish(v) THEN d ELSE v

\* "k" in v  (own enumerable key of a plain object)
HasKey(v, k) == v.t = "object" /\ \E i \in 1..Len(v.f) : v.f[i][1] = k
GetKey(v, k) == LET i == CHOOSE j \in 1..Len(v.f) : v.f[j][1] = k IN v.f[i][2]

RECURSIVE JSONstringify(_)
RECURSIVE StringifyEntries(_, _)
\* JSON.stringify(v), for a v that is not undefined.  Entries whose value is
\* undefined are left out, as JSON.stringify leaves them out.
JSONstringify(v) ==
  CASE v.t = "string" -> Quote(v.s)
    [] v.t = "number" -> NumText(v.n)
    [] v.t = "null"   -> <<"n", "u", "l", "l">>
    [] v.t = "object" -> <<"{">> \o StringifyEntries(v.f, TRUE) \o <<"}">>
    [] OTHER          -> <<>>
StringifyEntries(f, first) ==
  IF f = <<>> THEN <<>>
  ELSE IF Head(f)[2].t = "undefined" THEN StringifyEntries(Tail(f), first)
  ELSE (IF first THEN <<>> ELSE <<",">>)
       \o Quote(Head(f)[1]) \o <<":">> \o JSONstringify(Head(f)[2])
       \o StringifyEntries(Tail(f), FALSE)

----------------------------------------------------------------------------
(* Headers                                                                 *)

NoHeaders == [k \in {} |-> ""]

\* Header names are case-insensitive: the Headers class stores them in
\* lower case.
Lower(name) ==
  CASE name = "Content-Type"     -> "content-type"
    [] name = "PAYMENT-REQUIRED" -> "payment-required"
    [] name = "PAYMENT-RESPONSE" -> "payment-response"
    [] OTHER                     -> name

\* Headers.prototype.set
HeadersSet(h, name, value) ==
  [k \in DOMAIN h \cup {Lower(name)} |-> IF k = Lower(name) THEN value ELSE h[k]]

\* Headers.prototype.get (absent: "")
HeadersHas(h, name) == Lower(name) \in DOMAIN h
HeadersGet(h, name) == IF HeadersHas(h, name) THEN h[Lower(name)] ELSE ""

RECURSIVE SetAll(_, _)
\* for (const [key, value] of Object.entries(record)) headers.set(key, value)
SetAll(h, entries) ==
  IF entries = <<>> THEN h
  ELSE SetAll(HeadersSet(h, Head(entries)[1], Head(entries)[2]), Tail(entries))

RECURSIVE AssignAll(_, _)
\* for (const [key, value] of Object.entries(record)) obj[key] = value
\* (a plain object: keys are kept as written)
AssignAll(obj, entries) ==
  IF entries = <<>> THEN obj
  ELSE AssignAll([k \in DOMAIN obj \cup {Head(entries)[1]} |->
                    IF k = Head(entries)[1] THEN Head(entries)[2] ELSE obj[k]],
                 Tail(entries))

----------------------------------------------------------------------------
(* Texts of the program and of its tests                                   *)

TxtError == <<"e", "r", "r", "o", "r">>
TxtDetails == <<"d", "e", "t", "a", "i", "l", "s">>
TxtCode == <<"c", "o", "d", "e">>
TxtResponse == <<"r", "e", "s", "p", "o", "n", "s", "e">>
TxtTemp == <<"t", "e", "m", "p">>
TxtSettlementFailed ==
  <<"S", "e", "t", "t", "l", "e", "m", "e", "n", "t", " ",
    "f", "a", "i", "l", "e", "d">>
TxtUnknownError ==
  <<"U", "n", "k", "n", "o", "w", "n", " ", "e", "r", "r", "o", "r">>
TxtInsufficientFunds ==
  <<"i", "n", "s", "u", "f", "f", "i", "c", "i", "e", "n", "t", " ",
    "f", "u", "n", "d", "s">>
TxtNotFound == <<"n", "o", "t", " ", "f", "o", "u", "n", "d">>
TxtDenied == <<"d", "e", "n", "i", "e", "d">>
TxtRequired == <<"r", "e", "q", "u", "i", "r", "e", "d">>
TxtPaywall == <<"<", "p", ">", "p", "a", "y", "<", "/", "p", ">">>
TxtOk == <<"o", "k">>
TxtBoom == <<"b", "o", "o", "m">>

----------------------------------------------------------------------------
(* Requests                                                                *)

\* An absent header
Absent == "(absent)"

\* The route table of the resource server: "METHOD path" keys.
ProtectedRoutes == {"GET /api/weather"}

\* The requests a client sends: method, path and the two payment headers.
RequestCases ==
  { [method |-> "GET", path |-> "/health",
     sig |-> "", xpay |-> "legacy-v1"],
    [method |-> "GET", path |-> "/api/weather",
     sig |-> "sig-v2", xpay |-> Absent] }

\* Mutant: the legacy header is looked at first
OrElse_LegacyFirst(a, b) == IF b \in {Absent, ""} THEN a ELSE b

\* a || b on two header reads: an absent or empty first value falls through
OrElse(a, b) == IF a \in {Absent, ""} THEN b ELSE a

\* The HTTPRequestContext built at the top of onBeforeHandle; the adapter is
\* an object created for this request, identified here by the request.
BuildContext(r, rq) ==
  [adapter |-> r, path |-> rq.path, method |-> rq.method,
   paymentHeader |-> OrElse(rq.sig, rq.xpay)]

NoContext == [adapter |-> 0, path |-> "", method |-> "", paymentHeader |-> Absent]

\* Mutant: every route is taken to need payment
requiresPayment_Always(c) == TRUE

\* httpServer.requiresPayment(context): the route-table lookup
requiresPayment(c) == (c.method \o " " \o c.path) \in ProtectedRoutes

----------------------------------------------------------------------------
(* Results of httpServer.processHTTPRequest                                *)

NoErrorResponse ==
  [status |-> 0, headers |-> <<>>, body |-> JUndefined, isHtml |-> FALSE]

ProcessResult(type, resp, payload, reqs, ext) ==
  [type |-> type, response |-> resp, paymentPayload |-> payload,
   paymentRequirements |-> reqs, declaredExtensions |-> ext]

NoPaymentRequired ==
  ProcessResult("no-payment-required", NoErrorResponse, "none", "none", "none")

\* processHTTPRequest rejects instead of resolving
VerifyThrows == ProcessResult("throws", NoErrorResponse, "none", "none", "none")

PaymentError(status, headers, body, isHtml) ==
  ProcessResult("payment-error",
                [status |-> status, headers |-> headers, body |-> body,
                 isHtml |-> isHtml],
                "none", "none", "none")

\* The payment-error outcomes: the JSON 402 and the HTML paywall of the
\* tests, a 412 without a body, the 403 of an aborting protected-request
\* hook, and a 402 whose header record holds its own content-type.
PaymentErrors ==
  { PaymentError(402, << <<"payment-required", "encoded-req">> >>,
                 JObj(<< <<TxtError, JStr(TxtRequired)>> >>), FALSE),
    PaymentError(402, << <<"Content-Type", "text/html">> >>,
                 JStr(TxtPaywall), TRUE),
    PaymentError(412, << <<"PAYMENT-REQUIRED", "encoded-req">>,
                         <<"x-custom-header", "custom-value">> >>,
                 JUndefined, FALSE),
    PaymentError(403, << <<"Content-Type", "application/json">> >>,
                 JObj(<< <<TxtError, JStr(TxtDenied)>> >>), FALSE),
    PaymentError(402, << <<"content-type", "application/problem+json">>,
                         <<"payment-required", "encoded-req">> >>,
                 JObj(<< <<TxtError, JStr(TxtRequired)>> >>), FALSE) }

PaymentVerifieds ==
  { ProcessResult("payment-verified", NoErrorResponse,
                  "payloadA", "requirementsA", "undefined"),
    ProcessResult("payment-verified", NoErrorResponse,
                  "payloadB", "requirementsB", "extensionsB") }

ProcessResults ==
  {NoPaymentRequired, VerifyThrows} \cup PaymentErrors \cup PaymentVerifieds

----------------------------------------------------------------------------
(* What a route handler leaves behind: ctx.response and ctx.set.           *)
(*   kind = "Response": a Response with `status`, body text value.s and    *)
(*          its own `headers`                                              *)
(*   kind = "status":   the wrapper of the status()/error() helpers,       *)
(*          { code: status, response: value }                              *)
(*   kind = "value":    a plain return value                               *)
(*   setStatus, setHeaders: ctx.set.status and ctx.set.headers             *)

Handled(kind, status, value, setStatus, setHeaders) ==
  [kind |-> kind, status |-> status, value |-> value, headers |-> NoHeaders,
   setStatus |-> setStatus, setHeaders |-> setHeaders]

NotHandled == Handled("none", 0, JUndefined, 200, NoHeaders)

HandlerResults ==
  { Handled("value", 0, JObj(<< <<TxtTemp, JNum(72)>> >>), 200, NoHeaders),
    Handled("value", 0, JStr(TxtOk), 200, NoHeaders),
    Handled("value", 0, JObj(<< <<TxtTemp, JNum(72)>> >>), 200,
            [k \in {"x-handler", "payment-response"} |-> "set-by-handler"]),
    Handled("Response", 200, JStr(TxtOk), 200, NoHeaders),
    Handled("Response", 404, JStr(TxtNotFound), 200, NoHeaders),
    Handled("status", 404, JObj(<< <<TxtError, JStr(TxtNotFound)>> >>),
            200, NoHeaders),
    Handled("status", 201, JStr(TxtOk), 200, NoHeaders),
    Handled("value", 0, JObj(<< <<TxtError, JStr(TxtNotFound)>> >>),
            404, NoHeaders),
    Handled("value", 0, JObj(<< <<TxtCode, JNum(404)>> >>), 200, NoHeaders),
    Handled("value", 0, JNum(42), 200, NoHeaders) }

\* ctx.response as the hook sees it when it is not a Response: the wrapper
\* is an object with the keys code and response.
AsObject(h) ==
  IF h.kind = "status"
  THEN JObj(<< <<TxtCode, JNum(h.status)>>, <<TxtResponse, h.value>> >>)
  ELSE h.value

\* The body text the framework sends for a value
BodyText(v) ==
  CASE v.t = "string" -> v.s
    [] v.t \in {"undefined", "null"} -> <<>>
    [] OTHER -> JSONstringify(v)

\* The HTTP status the handler's response carries
HandlerStatus(h) ==
  IF h.kind \in {"Response", "status"} THEN h.status ELSE h.setStatus

\* The body the handler's response carries
HandlerBody(h) == BodyText(h.value)

----------------------------------------------------------------------------
(* The response that leaves the server                                     *)

HttpResponse(status, headers, body) ==
  [kind |-> "response", status |-> status, headers |-> headers, body |-> body]

NoResponseYet == [kind |-> "none", status |-> 0, headers |-> NoHeaders, body |-> <<>>]

\* An error that propagated out of a hook: the framework's error response
\* takes the place of the handler's.
UnhandledError ==
  [kind |-> "error", status |-> 500, headers |-> NoHeaders, body |-> <<>>]

\* ctx.set.headers is merged into whatever goes out
MergeSet(headers, setHeaders) ==
  [k \in DOMAIN headers \cup DOMAIN setHeaders |->
     IF k \in DOMAIN setHeaders THEN setHeaders[k] ELSE headers[k]]

\* The handler's response as the framework sends it when no hook replaces it
Deliver(h, setHeaders) ==
  HttpResponse(HandlerStatus(h), MergeSet(h.headers, setHeaders), HandlerBody(h))

\* A Response a hook returns takes the place of the handler's response
DeliverReplacement(resp, setHeaders) ==
  HttpResponse(resp.status, MergeSet(resp.headers, setHeaders), resp.body)

----------------------------------------------------------------------------
(* Results of httpServer.processSettlement                                 *)

\* how = "resolved": the promise resolves to { success, errorReason, headers }
\* how = "rejected": the call throws; isError says whether the thrown value
\*                   is an Error, message is its message
SettleResolved(success, reason, headers) ==
  [how |-> "resolved", success |-> success, errorReason |-> reason,
   headers |-> headers, isError |-> FALSE, message |-> <<>>]

SettleRejected(isError, message) ==
  [how |-> "rejected", success |-> FALSE, errorReason |-> <<>>,
   headers |-> <<>>, isError |-> isError, message |-> message]

NotSettled == [how |-> "none", success |-> FALSE, errorReason |-> <<>>,
               headers |-> <<>>, isError |-> FALSE, message |-> <<>>]

\* What the facilitator can answer to a settle call.  It is handed the
\* serialized response body, so a reason or a message may repeat it.
SettleResults(responseBody) ==
  { SettleResolved(TRUE, <<>>, << <<"payment-response", "encoded-receipt">> >>) }
  \cup { SettleResolved(FALSE, TxtInsufficientFunds, <<>>),
         SettleResolved(FALSE, responseBody,
                        << <<"payment-response", "failure-receipt">> >>) }
  \cup { SettleRejected(TRUE, TxtBoom), SettleRejected(TRUE, responseBody),
         SettleRejected(FALSE, <<>>) }

----------------------------------------------------------------------------
(* onBeforeHandle, payment-error branch                                    *)

\* new Response(body as string): the text of a body given to Response
BodyInit(v) ==
  CASE v.t = "string" -> v.s
    [] v.t \in {"undefined", "null"} -> <<>>
    [] OTHER -> <<"[", "o", "b", "j", "e", "c", "t", " ",
                  "O", "b", "j", "e", "c", "t", "]">>

\* Mutant: the status is forced to 402
PaymentErrorResponse_Always402(resp) ==
  LET headers == SetAll(NoHeaders, resp.headers) IN
  IF resp.isHtml
  THEN [status |-> 402,
        headers |-> HeadersSet(headers, "content-type", "text/html; charset=utf-8"),
        body |-> BodyInit(resp.body)]
  ELSE [status |-> 402,
        headers |-> HeadersSet(headers, "content-type", "application/json"),
        body |-> JSONstringify(Coalesce(resp.body, JObj(<<>>)))]

\* Mutant: a status that is neither 402 nor 412 is answered with 402
PaymentErrorResponse_Only402Or412(resp) ==
  LET headers == SetAll(NoHeaders, resp.headers)
      status == IF resp.status \in {402, 412} THEN resp.status ELSE 402
  IN
  IF resp.isHtml
  THEN [status |-> status,
        headers |-> HeadersSet(headers, "content-type", "text/html; charset=utf-8"),
        body |-> BodyInit(resp.body)]
  ELSE [status |-> status,
        headers |-> HeadersSet(headers, "content-type", "application/json"),
        body |-> JSONstringify(Coalesce(resp.body, JObj(<<>>)))]

\* Mutant: an absent body is not replaced by {}
PaymentErrorResponse_NoEmptyObject(resp) ==
  LET headers == SetAll(NoHeaders, resp.headers) IN
  IF resp.isHtml
  THEN [status |-> resp.status,
        headers |-> HeadersSet(headers, "content-type", "text/html; charset=utf-8"),
        body |-> BodyInit(resp.body)]
  ELSE [status |-> resp.status,
        headers |-> HeadersSet(headers, "content-type", "application/json"),
        body |-> JSONstringify(resp.body)]

\* The Response built from a payment-error result
PaymentErrorResponse(resp) ==
  LET headers == SetAll(NoHeaders, resp.headers) IN
  IF resp.isHtml
  THEN [status |-> resp.status,
        headers |-> HeadersSet(headers, "content-type", "text/html; charset=utf-8"),
        body |-> BodyInit(resp.body)]
  ELSE [status |-> resp.status,
        headers |-> HeadersSet(headers, "content-type", "application/json"),
        body |-> JSONstringify(Coalesce(resp.body, JObj(<<>>)))]

\* The value stored in ctx.x402PaymentContext.value
NoPaymentContext ==
  [paymentPayload |-> "none", paymentRequirements |-> "none",
   declaredExtensions |-> "none", context |-> NoContext]

VerifiedPaymentContext(result, c) ==
  [paymentPayload |-> result.paymentPayload,
   paymentRequirements |-> result.paymentRequirements,
   declaredExtensions |-> result.declaredExtensions,
   context |-> c]

----------------------------------------------------------------------------
(* onAfterHandle                                                           *)

\* The handler's response signals an error, in one of the two shapes the
\* hook looks at: a Response with status >= 400, or an object with a
\* numeric `code` >= 400.
SkipsSettlement(h) ==
  \/ h.kind = "Response" /\ h.status >= 400
  \/ /\ h.kind # "Response"
     /\ HasKey(AsObject(h), TxtCode)
     /\ GetKey(AsObject(h), TxtCode).t = "number"
     /\ GetKey(AsObject(h), TxtCode).n >= 400

\* The bytes handed to processSettlement as transportContext.responseBody
SerializeResponseBody(h) ==
  CASE h.kind = "Response" -> h.value.s
    [] h.kind # "Response" /\ AsObject(h).t = "string" -> AsObject(h).s
    [] h.kind # "Response" /\ AsObject(h).t = "object" -> JSONstringify(AsObject(h))
    [] OTHER -> <<>>

SettleArgs(pc0, responseBody) ==
  [paymentPayload |-> pc0.paymentPayload,
   paymentRequirements |-> pc0.paymentRequirements,
   declaredExtensions |-> pc0.declaredExtensions,
   transportContext |-> [request |-> pc0.context, responseBody |-> responseBody]]

\* The 402 that replaces the handler's response
SettlementFailedResponse(details) ==
  [status |-> 402,
   headers |-> [k \in {"content-type"} |-> "application/json"],
   body |-> JSONstringify(JObj(<< <<TxtError, JStr(TxtSettlementFailed)>>,
                                  <<TxtDetails, JStr(details)>> >>))]

\* Mutant: the message of the thrown value is never looked at
ErrorMessage_AlwaysUnknown(res) == TxtUnknownError

\* const message = err instanceof Error ? err.message : "Unknown error"
ErrorMessage(res) == IF res.isError THEN res.message ELSE TxtUnknownError

\* Mutant: a settlement header does not replace one the handler has set
HeadersAfterSettle_HandlerWins(setHeaders, res) ==
  IF res.how = "resolved" /\ res.success
  THEN [k \in DOMAIN AssignAll(setHeaders, res.headers) |->
          IF k \in DOMAIN setHeaders THEN setHeaders[k]
          ELSE AssignAll(setHeaders, res.headers)[k]]
  ELSE setHeaders

\* ctx.set.headers after the settle call has answered
HeadersAfterSettle(setHeaders, res) ==
  IF res.how = "resolved" /\ res.success
  THEN AssignAll(setHeaders, res.headers)
  ELSE setHeaders

\* Mutant: no catch around the settle call, a thrown error leaves the hook
ResponseAfterSettle_NoCatch(h, setHeaders, res) ==
  CASE res.how = "resolved" /\ res.success ->
         Deliver(h, HeadersAfterSettle(setHeaders, res))
    [] res.how = "resolved" /\ ~res.success ->
         DeliverReplacement(SettlementFailedResponse(res.errorReason), setHeaders)
    [] OTHER -> UnhandledError

\* The response that goes out after the settle call has answered
ResponseAfterSettle(h, setHeaders, res) ==
  CASE res.how = "resolved" /\ res.success ->
         Deliver(h, HeadersAfterSettle(setHeaders, res))
    [] res.how = "resolved" /\ ~res.success ->
         DeliverReplacement(SettlementFailedResponse(res.errorReason), setHeaders)
    [] OTHER ->
         DeliverReplacement(SettlementFailedResponse(ErrorMessage(res)), setHeaders)

----------------------------------------------------------------------------
(* ElysiaAdapter                                                           *)

TxtOrigin ==
  <<"h", "t", "t", "p", ":", "/", "/", "l", "o", "c", "a", "l", "h", "o",
    "s", "t">>
TxtSearchPath ==
  <<"/", "s", "e", "a", "r", "c", "h">>
TxtApplicationJson ==
  <<"a", "p", "p", "l", "i", "c", "a", "t", "i", "o", "n", "/", "j", "s",
    "o", "n">>
TxtApplicationJsonUtf8 ==
  <<"a", "p", "p", "l", "i", "c", "a", "t", "i", "o", "n", "/", "j", "s",
    "o", "n", ";", " ", "c", "h", "a", "r", "s", "e", "t", "=", "u", "t",
    "f", "-", "8">>
TxtApplicationJsonUpper ==
  <<"A", "p", "p", "l", "i", "c", "a", "t", "i", "o", "n", "/", "J", "S",
    "O", "N">>
TxtTextPlain ==
  <<"t", "e", "x", "t", "/", "p", "l", "a", "i", "n">>
TxtQ ==
  <<"q">>
TxtTag ==
  <<"t", "a", "g">>
TxtProto ==
  <<"_", "_", "p", "r", "o", "t", "o", "_", "_">>
TxtMissing ==
  <<"m", "i", "s", "s", "i", "n", "g">>

\* Number of parameters in a query string
MaxParams == 3

QueryKeys == {TxtQ, TxtTag, TxtProto}
QueryValues == {<<"a">>, <<"b">>}

\* The lists of <<key, value>> a client writes in a query string
RECURSIVE PairLists(_)
PairLists(n) ==
  IF n = 0 THEN {<<>>}
  ELSE PairLists(n - 1)
       \cup { Append(l, <<k, v>>) :
                l \in {m \in PairLists(n - 1) : Len(m) = n - 1},
                k \in QueryKeys, v \in QueryValues }

RECURSIVE QueryText(_)
\* key=value&key=value
QueryText(pairs) ==
  IF pairs = <<>> THEN <<>>
  ELSE Head(pairs)[1] \o <<"=">> \o Head(pairs)[2]
       \o (IF Tail(pairs) = <<>> THEN <<>> ELSE <<"&">> \o QueryText(Tail(pairs)))

\* The URL of a request to /search with the given parameters
RequestUrl(pairs) ==
  TxtOrigin \o TxtSearchPath
    \o (IF pairs = <<>> THEN <<>> ELSE <<"?">> \o QueryText(pairs))

\* Position of the first c in s, Len(s) + 1 when there is none
IndexOf(s, c) ==
  IF \E i \in 1..Len(s) : s[i] = c
  THEN CHOOSE i \in 1..Len(s) : s[i] = c /\ \A j \in 1..(i - 1) : s[j] # c
  ELSE Len(s) + 1

RECURSIVE Split(_, _)
\* s.split(c)
Split(s, c) ==
  IF IndexOf(s, c) > Len(s) THEN <<s>>
  ELSE <<SubSeq(s, 1, IndexOf(s, c) - 1)>>
       \o Split(SubSeq(s, IndexOf(s, c) + 1, Len(s)), c)

\* new URL(url).pathname for a URL of the origin: what follows the origin,
\* up to the query string
Pathname(url) ==
  LET rest == SubSeq(url, Len(TxtOrigin) + 1, Len(url)) IN
  SubSeq(rest, 1, IndexOf(rest, "?") - 1)

\* The query string of a URL, without its question mark
Search(url) == SubSeq(url, IndexOf(url, "?") + 1, Len(url))

\* One key=value piece of a query string as a <<key, value>> pair (the texts
\* here hold no character that is percent-decoded)
ParsePair(piece) ==
  <<SubSeq(piece, 1, IndexOf(piece, "=") - 1),
    SubSeq(piece, IndexOf(piece, "=") + 1, Len(piece))>>

\* new URL(url).searchParams: the list of <<key, value>>, empty pieces skipped
SearchParams(url) ==
  LET pieces == SelectSeq(Split(Search(url), "&"), LAMBDA p : p # <<>>) IN
  [i \in 1..Len(pieces) |-> ParsePair(pieces[i])]

\* URLSearchParams.prototype.getAll(name): the values, in order
GetAll(params, name) ==
  LET hits == SelectSeq(params, LAMBDA p : p[1] = name) IN
  [i \in 1..Len(hits) |-> hits[i][2]]

\* What getQueryParam returns and getQueryParams holds:
\*   t = "undefined" | "string" | "array" | "Object.prototype"
\*   s = the text of a string, a = the texts of an array
QUndefined == [t |-> "undefined", s |-> <<>>, a |-> <<>>]
QString(s) == [t |-> "string", s |-> s, a |-> <<>>]
QArray(a) == [t |-> "array", s |-> <<>>, a |-> a]
QObjectPrototype == [t |-> "Object.prototype", s |-> <<>>, a |-> <<>>]

\* values.length === 1 ? values[0] : values
OneOrAll(values) == IF Len(values) = 1 THEN QString(values[1]) ELSE QArray(values)

\* A request header: present with a value, or not there
HeaderPresent(v) == [present |-> TRUE, value |-> v]
HeaderAbsent == [present |-> FALSE, value |-> <<>>]

\* The Elysia context an adapter is built on: the URL and the content type
\* of ctx.request, and ctx.body as the framework parsed it
Ctx(url, contentType, body) ==
  [url |-> url, contentType |-> contentType, body |-> body]

\* Mutant: the constructor keeps ctx.body whatever the content type
ElysiaAdapter_AnyContentType(ctx) ==
  [url |-> ctx.url, parsedBody |-> ctx.body]

\* new ElysiaAdapter(ctx)
ElysiaAdapter(ctx) ==
  LET contentType == IF ctx.contentType.present THEN ctx.contentType.value
                     ELSE <<>>
  IN [url |-> ctx.url,
      parsedBody |-> IF Contains(contentType, TxtApplicationJson)
                     THEN ctx.body ELSE JUndefined]

getPath(a) == Pathname(a.url)

getBody(a) == a.parsedBody

getQueryParam(a, name) ==
  LET values == GetAll(SearchParams(a.url), name) IN
  IF Len(values) = 0 THEN QUndefined ELSE OneOrAll(values)

\* A plain object, created with {}: its own properties and its prototype
EmptyObject == [own |-> [k \in {} |-> QUndefined], proto |-> QObjectPrototype]

\* obj[key] = value on a plain object.  The key __proto__ is the accessor of
\* Object.prototype: it sets the prototype when the value is an object and
\* does nothing otherwise; no own property is made.
ObjectSet(obj, key, value) ==
  IF key = TxtProto
  THEN IF value.t = "array" THEN [obj EXCEPT !.proto = value] ELSE obj
  ELSE [obj EXCEPT !.own = [k \in DOMAIN obj.own \cup {key} |->
                              IF k = key THEN value ELSE obj.own[k]]]

\* obj[key] read from a plain object: an own property, the prototype for
\* __proto__, and nothing for the other keys used here
ObjectGet(obj, key) ==
  IF key \in DOMAIN obj.own THEN obj.own[key]
  ELSE IF key = TxtProto THEN obj.proto
  ELSE QUndefined

RECURSIVE CollectParams(_, _, _)
\* for (const key of params.keys()) result[key] = ...getAll(key)...
CollectParams(obj, keys, params) ==
  IF keys = <<>> THEN obj
  ELSE CollectParams(ObjectSet(obj, Head(keys), OneOrAll(GetAll(params, Head(keys)))),
                     Tail(keys), params)

getQueryParams(a) ==
  LET params == SearchParams(a.url) IN
  CollectParams(EmptyObject, [i \in 1..Len(params) |-> params[i][1]], params)

\* The methods called on an adapter, and a call: the method, its argument
\* and what it returned
NoCall == [method |-> "none", arg |-> <<>>, value |-> QUndefined]
Call(method, arg, value) == [method |-> method, arg |-> arg, value |-> value]

----------------------------------------------------------------------------
(* The route configuration of the resource server                          *)
(*   a RouteConfig is an object with `accepts` and, when the route declares *)
(*   extensions, `extensions`, whose keys are the names of the extensions;  *)
(*   a RoutesConfig is one RouteConfig or an object of RouteConfigs under   *)
(*   their route patterns.                                                  *)

RouteConfig == [accepts |-> "payment-option"]

RouteConfigWith(extensions) ==
  [accepts |-> "payment-option", extensions |-> extensions]

\* The keys an extensions object is written with
ExtensionKeys == {{}, {"bazaar"}, {"other"}, {"bazaar", "other"}}

RouteConfigs == {RouteConfig} \cup {RouteConfigWith(e) : e \in ExtensionKeys}

\* The route of the requests and one more a multi-route config may protect
RoutePatterns == {"GET /api/weather", "GET /api/premium"}

MultiRouteConfigs ==
  UNION { [ks -> RouteConfigs] :
            ks \in {k \in SUBSET RoutePatterns : "GET /api/weather" \in k} }

RoutesConfigs == RouteConfigs \cup MultiRouteConfigs

\* rc.extensions && "bazaar" in rc.extensions
DeclaresBazaar(rc) ==
  "extensions" \in DOMAIN rc /\ "bazaar" \in rc.extensions

\* Mutant: a config with `accepts` is read as a table of routes too, and
\* none of its values is a RouteConfig with extensions
checkIfBazaarNeeded_MultiOnly(routes) ==
  IF "accepts" \in DOMAIN routes
  THEN FALSE
  ELSE \E k \in DOMAIN routes : DeclaresBazaar(routes[k])

checkIfBazaarNeeded(routes) ==
  IF "accepts" \in DOMAIN routes
  THEN DeclaresBazaar(routes)
  ELSE \E k \in DOMAIN routes : DeclaresBazaar(routes[k])

\* The paywall argument of the factory: a PaywallProvider or undefined
Paywalls == {"undefined", "paywall-provider"}

\* Mutant: the provider is registered whatever the argument is
Truthy_Always(paywall) == TRUE

\* if (paywall)
Truthy(paywall) == paywall # "undefined"

----------------------------------------------------------------------------
(* State                                                                   *)

VARIABLES
  paywall,                \* the factory's argument
  registerPaywallCalls,   \* times httpServer.registerPaywallProvider was called
  routes,                 \* httpServer.routes
  hasExtension,           \* httpServer.server.hasExtension("bazaar") when
                          \*   the plugin is built
  importCalls,            \* times the extension import was started
  registerCalls,          \* times httpServer.server.registerExtension was called
  syncFacilitatorOnStart, \* the factory's argument
  initPromise,            \* the closure variable: "promise" or "null"
  initState,              \* httpServer.initialize(): "not-called", "pending",
                          \*   "resolved" or "rejected"
  initializeCalls,        \* times httpServer.initialize() was called
  bazaarPromise,          \* the closure variable: "promise" or "null"
  bazaarState,            \* the extension import: "not-started", "pending",
                          \*   "registered" or "failed" (logged)
  pc,                     \* where each request is
  awaitedInit,            \* the request was suspended on initPromise
  request,                \* the request as received
  context,                \* the HTTPRequestContext of onBeforeHandle
  x402PaymentContext,     \* ctx.x402PaymentContext.value
  verifyCalls,            \* arguments of each processHTTPRequest call
  result,                 \* what processHTTPRequest answered
  handled,                \* ctx.response and ctx.set as the handler left them
  handlerRuns,            \* times the route handler ran
  setHeaders,             \* ctx.set.headers
  settleCalls,            \* arguments of each processSettlement call
  settleResult,           \* what processSettlement answered
  final                   \* the response sent to the client

\* One request to an app on which two plugins are stacked with .use():
\* Insts numbers the plugins in the order of their registration.
VARIABLES
  appRoutes,              \* the route table of each plugin's httpServer
  appPc,                  \* the lifecycle phase the request is in
  appAt,                  \* the plugin whose hook is running or is next
  appRequest,             \* the request as received
  appSlot,                \* ctx.x402PaymentContext.value
  appSlotWrites,          \* times a hook assigned ctx.x402PaymentContext.value
  appSlotReads,           \* times a hook read ctx.x402PaymentContext.value
  appConsulted,           \* times each httpServer.requiresPayment was called
  appVerifyCalls,         \* arguments of each httpServer's processHTTPRequest calls
  appResult,              \* what each processHTTPRequest answered
  appHandlerRuns,         \* times the route handler ran
  appResponse,            \* ctx.response and ctx.set.status
  appSetHeaders,          \* ctx.set.headers
  appSettleCalls,         \* arguments of each httpServer's processSettlement calls
  appSettleResult,        \* what each processSettlement answered
  appFinal                \* the response sent to the client

\* An adapter built on the context of one request, and the calls made on it
VARIABLES
  adapterCtx,             \* the Elysia context the adapter was built on
  adapterPairs,           \* the parameters the client wrote in the URL
  capturedAdapter,        \* the ElysiaAdapter
  adapterCall             \* the last method call on it and what it returned

vars == <<paywall, registerPaywallCalls, routes, hasExtension, importCalls, registerCalls,
          syncFacilitatorOnStart, initPromise, initState, initializeCalls,
          bazaarPromise,
          bazaarState, pc, awaitedInit, request, context, x402PaymentContext, verifyCalls,
          result, handled, handlerRuns, setHeaders, settleCalls, settleResult,
          final, appRoutes, appPc, appAt, appRequest, appSlot, appSlotWrites,
          appSlotReads, appConsulted,
          appVerifyCalls, appResult, appHandlerRuns, appResponse,
          appSetHeaders, appSettleCalls, appSettleResult, appFinal,
          adapterCtx, adapterPairs, capturedAdapter, adapterCall>>

adapterVars == <<adapterCtx, adapterPairs, capturedAdapter, adapterCall>>

\* The variables of a server with one plugin
pluginVars ==
  <<paywall, registerPaywallCalls, routes, hasExtension, importCalls, registerCalls, syncFacilitatorOnStart, initPromise, initState, initializeCalls,
    bazaarPromise, bazaarState, pc, awaitedInit, request, context, x402PaymentContext,
    verifyCalls, result, handled, handlerRuns, setHeaders, settleCalls,
    settleResult, final>>

\* The variables of the app with two plugins
appVars == <<appRoutes, appPc, appAt, appRequest, appSlot, appSlotWrites,
             appSlotReads, appConsulted,
             appVerifyCalls, appResult, appHandlerRuns, appResponse,
             appSetHeaders, appSettleCalls, appSettleResult,
             appFinal>>

\* What the factory was given and what it started
configVars ==
  <<paywall, registerPaywallCalls, routes, hasExtension, importCalls>>

serverVars ==
  <<configVars, registerCalls, syncFacilitatorOnStart, initState,
    initializeCalls, bazaarState, awaitedInit>>

\* The paywallConfig the plugin was built with
paywallConfig == "paywall-config"

NoRequest == [method |-> "", path |-> "", sig |-> Absent, xpay |-> Absent]
NoResult == ProcessResult("none", NoErrorResponse, "none", "none", "none")

\* The plugins stacked on an app
Insts == 1..2

\* The app has received nothing: no plugin's hook has run
AppIdle ==
  /\ appPc = "new"
  /\ appAt = 1
  /\ appRequest = NoRequest
  /\ appSlot = NoPaymentContext
  /\ appSlotWrites = 0
  /\ appSlotReads = 0
  /\ appConsulted = [i \in Insts |-> 0]
  /\ appVerifyCalls = [i \in Insts |-> <<>>]
  /\ appResult = [i \in Insts |-> NoResult]
  /\ appHandlerRuns = 0
  /\ appResponse = NotHandled
  /\ appSetHeaders = NoHeaders
  /\ appSettleCalls = [i \in Insts |-> <<>>]
  /\ appSettleResult = [i \in Insts |-> NotSettled]
  /\ appFinal = NoResponseYet

\* paymentMiddlewareFromHTTPServer has run: initialize() was called when
\* syncFacilitatorOnStart is set, the extension import was started when a
\* route declares the bazaar extension and the server does not have it.
InitPlugin ==
  /\ registerPaywallCalls = IF Truthy(paywall) THEN 1 ELSE 0
  /\ syncFacilitatorOnStart \in BOOLEAN
  /\ initPromise = IF syncFacilitatorOnStart THEN "promise" ELSE "null"
  /\ initState = IF syncFacilitatorOnStart THEN "pending" ELSE "not-called"
  /\ initializeCalls = IF syncFacilitatorOnStart THEN 1 ELSE 0
  /\ bazaarPromise =
       IF checkIfBazaarNeeded(routes) /\ ~hasExtension THEN "promise" ELSE "null"
  /\ bazaarState = IF bazaarPromise = "promise" THEN "pending" ELSE "not-started"
  /\ importCalls = IF bazaarPromise = "promise" THEN 1 ELSE 0
  /\ registerCalls = 0
  /\ pc = [r \in Reqs |-> "new"]
  /\ awaitedInit = [r \in Reqs |-> FALSE]
  /\ request = [r \in Reqs |-> NoRequest]
  /\ context = [r \in Reqs |-> NoContext]
  /\ x402PaymentContext = [r \in Reqs |-> NoPaymentContext]
  /\ verifyCalls = [r \in Reqs |-> <<>>]
  /\ result = [r \in Reqs |-> NoResult]
  /\ handled = [r \in Reqs |-> NotHandled]
  /\ handlerRuns = [r \in Reqs |-> 0]
  /\ setHeaders = [r \in Reqs |-> NoHeaders]
  /\ settleCalls = [r \in Reqs |-> <<>>]
  /\ settleResult = [r \in Reqs |-> NotSettled]
  /\ final = [r \in Reqs |-> NoResponseYet]

\* An adapter on a request without parameters, content type or body
AdapterIdle ==
  /\ adapterPairs = <<>>
  /\ adapterCtx = Ctx(RequestUrl(<<>>), HeaderAbsent, JUndefined)
  /\ capturedAdapter = ElysiaAdapter(adapterCtx)
  /\ adapterCall = NoCall

\* The route table of the requests, without and with the bazaar extension
PlainRoutes == [k \in ProtectedRoutes |-> RouteConfig]
BazaarRoutes == [k \in ProtectedRoutes |-> RouteConfigWith({"bazaar"})]

\* One plugin on the server
Init ==
  /\ routes \in {PlainRoutes, BazaarRoutes}
  /\ hasExtension = FALSE
  /\ paywall = "undefined"
  /\ InitPlugin
  /\ appRoutes = [i \in Insts |-> ProtectedRoutes]
  /\ AppIdle
  /\ AdapterIdle

----------------------------------------------------------------------------
(* The external promises                                                   *)

InitializeResolves ==
  /\ initState = "pending"
  /\ initState' = "resolved"
  /\ UNCHANGED <<adapterVars, appVars, configVars, registerCalls,
                 syncFacilitatorOnStart, initPromise, initializeCalls,
                 bazaarPromise,
                 bazaarState, pc, awaitedInit, request, context, x402PaymentContext,
                 verifyCalls, result, handled, handlerRuns, setHeaders,
                 settleCalls, settleResult, final>>

InitializeRejects ==
  /\ initState = "pending"
  /\ initState' = "rejected"
  /\ UNCHANGED <<adapterVars, appVars, configVars, registerCalls,
                 syncFacilitatorOnStart, initPromise, initializeCalls,
                 bazaarPromise,
                 bazaarState, pc, awaitedInit, request, context, x402PaymentContext,
                 verifyCalls, result, handled, handlerRuns, setHeaders,
                 settleCalls, settleResult, final>>

\* import(...).then(registerExtension): the extension is registered and the
\* promise resolves
BazaarLoads ==
  /\ bazaarState = "pending"
  /\ bazaarState' = "registered"
  /\ registerCalls' = registerCalls + 1
  /\ UNCHANGED <<adapterVars, appVars, configVars,
                 syncFacilitatorOnStart, initPromise, initState,
                 initializeCalls,
                 bazaarPromise, pc, awaitedInit, request, context, x402PaymentContext,
                 verifyCalls, result, handled, handlerRuns, setHeaders,
                 settleCalls, settleResult, final>>

\* import(...) fails: .catch logs it and the promise resolves all the same
BazaarFails ==
  /\ bazaarState = "pending"
  /\ bazaarState' = "failed"
  /\ UNCHANGED <<adapterVars, appVars, configVars, registerCalls,
                 syncFacilitatorOnStart, initPromise, initState,
                 initializeCalls,
                 bazaarPromise, pc, awaitedInit, request, context, x402PaymentContext,
                 verifyCalls, result, handled, handlerRuns, setHeaders,
                 settleCalls, settleResult, final>>

----------------------------------------------------------------------------
(* onBeforeHandle                                                          *)

\* Mutant: the hook does not wait for processHTTPRequest and returns, so the
\* request goes on to its handler
CallVerify_NotAwaited(r, c) ==
  /\ pc' = [pc EXCEPT ![r] = "handler"]
  /\ verifyCalls' = [verifyCalls EXCEPT
                       ![r] = Append(@, [context |-> c,
                                         paywallConfig |-> paywallConfig])]

\* Mutant: processHTTPRequest is called with the context only
CallVerify_WithoutPaywallConfig(r, c) ==
  /\ pc' = [pc EXCEPT ![r] = "awaitVerify"]
  /\ verifyCalls' = [verifyCalls EXCEPT
                       ![r] = Append(@, [context |-> c,
                                         paywallConfig |-> "undefined"])]

\* httpServer.processHTTPRequest(context, paywallConfig) is called
CallVerify(r, c) ==
  /\ pc' = [pc EXCEPT ![r] = "awaitVerify"]
  /\ verifyCalls' = [verifyCalls EXCEPT
                       ![r] = Append(@, [context |-> c,
                                         paywallConfig |-> paywallConfig])]

\* if (bazaarPromise) { await bazaarPromise; ... } then processHTTPRequest
AwaitBazaarOrVerify(r, c) ==
  IF bazaarPromise # "null"
  THEN pc' = [pc EXCEPT ![r] = "awaitBazaar"] /\ UNCHANGED verifyCalls
  ELSE CallVerify(r, c)

\* if (initPromise) { await initPromise; ... }: the hook is suspended
AwaitInit(r) ==
  /\ pc' = [pc EXCEPT ![r] = "awaitInit"]
  /\ awaitedInit' = [awaitedInit EXCEPT ![r] = TRUE]
  /\ UNCHANGED verifyCalls

\* Mutant: the hook waits for initialization before it looks at the route
BeforeHandle_AwaitsFirst(r) ==
  /\ pc[r] = "new"
  /\ \E rq \in RequestCases :
       LET c == BuildContext(r, rq) IN
       /\ request' = [request EXCEPT ![r] = rq]
       /\ context' = [context EXCEPT ![r] = c]
       /\ IF initPromise # "null"
          THEN AwaitInit(r)
          ELSE IF ~requiresPayment(c)
          THEN pc' = [pc EXCEPT ![r] = "handler"]
               /\ UNCHANGED <<verifyCalls, awaitedInit>>
          ELSE AwaitBazaarOrVerify(r, c) /\ UNCHANGED awaitedInit
  /\ UNCHANGED <<adapterVars, appVars, configVars, registerCalls,
                 syncFacilitatorOnStart, initState, initializeCalls, bazaarState,
                 initPromise, bazaarPromise, x402PaymentContext,
                 result, handled, handlerRuns, setHeaders, settleCalls,
                 settleResult, final>>

\* Mutant: a protected request that finds initialization unfinished starts
\* it again
OnBeforeHandle_InitializesAgain(r, rq) ==
  LET c == BuildContext(r, rq) IN
  /\ pc[r] = "new"
  /\ request' = [request EXCEPT ![r] = rq]
  /\ context' = [context EXCEPT ![r] = c]
  /\ IF ~requiresPayment(c)
     THEN /\ pc' = [pc EXCEPT ![r] = "handler"]
          /\ UNCHANGED <<verifyCalls, initializeCalls, awaitedInit>>
     ELSE IF initPromise # "null"
     THEN /\ AwaitInit(r)
          /\ initializeCalls' = initializeCalls + 1
     ELSE AwaitBazaarOrVerify(r, c) /\ UNCHANGED <<initializeCalls, awaitedInit>>
  /\ UNCHANGED <<adapterVars, appVars, configVars, registerCalls,
                 syncFacilitatorOnStart, initState, bazaarState, initPromise,
                 bazaarPromise, x402PaymentContext, result, handled,
                 handlerRuns, setHeaders, settleCalls, settleResult, final>>

\* Mutant: without an initialization started at construction, the first
\* protected request starts it and waits for it
OnBeforeHandle_InitializesLazily(r, rq) ==
  LET c == BuildContext(r, rq) IN
  /\ pc[r] = "new"
  /\ request' = [request EXCEPT ![r] = rq]
  /\ context' = [context EXCEPT ![r] = c]
  /\ IF ~requiresPayment(c)
     THEN /\ pc' = [pc EXCEPT ![r] = "handler"]
          /\ UNCHANGED <<verifyCalls, initializeCalls, initState, initPromise,
                         awaitedInit>>
     ELSE IF initPromise # "null"
     THEN AwaitInit(r) /\ UNCHANGED <<initializeCalls, initState, initPromise>>
     ELSE IF initializeCalls = 0
     THEN /\ AwaitInit(r)
          /\ initializeCalls' = 1
          /\ initState' = "pending"
          /\ initPromise' = "promise"
     ELSE /\ AwaitBazaarOrVerify(r, c)
          /\ UNCHANGED <<initializeCalls, initState, initPromise, awaitedInit>>
  /\ UNCHANGED <<adapterVars, appVars, configVars, registerCalls,
                 syncFacilitatorOnStart, bazaarState,
                 bazaarPromise, x402PaymentContext, result, handled,
                 handlerRuns, setHeaders, settleCalls, settleResult, final>>

\* onBeforeHandle for the request rq: derive sets the empty slot, the hook
\* builds the context and runs to its first await or to its return.
OnBeforeHandle(r, rq) ==
  LET c == BuildContext(r, rq) IN
  /\ pc[r] = "new"
  /\ request' = [request EXCEPT ![r] = rq]
  /\ context' = [context EXCEPT ![r] = c]
  /\ IF ~requiresPayment(c)
     THEN pc' = [pc EXCEPT ![r] = "handler"] /\ UNCHANGED <<verifyCalls, awaitedInit>>
     ELSE IF initPromise # "null"
     THEN AwaitInit(r)
     ELSE AwaitBazaarOrVerify(r, c) /\ UNCHANGED awaitedInit
  /\ UNCHANGED <<adapterVars, appVars, configVars, registerCalls,
                 syncFacilitatorOnStart, initState, initializeCalls, bazaarState,
                 initPromise, bazaarPromise, x402PaymentContext,
                 result, handled, handlerRuns, setHeaders, settleCalls,
                 settleResult, final>>

\* A request arrives
BeforeHandle(r) == \E rq \in RequestCases : OnBeforeHandle(r, rq)

\* Mutant: the hook goes on without waiting for initialize() to resolve
InitAwaited_NotAwaited(r) ==
  /\ pc[r] = "awaitInit"
  /\ initPromise' = "null"
  /\ AwaitBazaarOrVerify(r, context[r])
  /\ UNCHANGED <<adapterVars, appVars, serverVars, bazaarPromise, request, context,
                 x402PaymentContext, result, handled, handlerRuns, setHeaders,
                 settleCalls, settleResult, final>>

\* Mutant: the resumed hook leaves initPromise as it was
InitAwaited_KeepsReference(r) ==
  /\ pc[r] = "awaitInit"
  /\ initState = "resolved"
  /\ AwaitBazaarOrVerify(r, context[r])
  /\ UNCHANGED <<adapterVars, appVars, serverVars, initPromise, bazaarPromise,
                 request, context,
                 x402PaymentContext, result, handled, handlerRuns, setHeaders,
                 settleCalls, settleResult, final>>

\* Mutant: a request that resumes and finds the reference already cleared
\* puts the promise back
InitAwaited_PutsBack(r) ==
  /\ pc[r] = "awaitInit"
  /\ initState = "resolved"
  /\ initPromise' = IF initPromise = "null" THEN "promise" ELSE "null"
  /\ AwaitBazaarOrVerify(r, context[r])
  /\ UNCHANGED <<adapterVars, appVars, serverVars, bazaarPromise, request, context,
                 x402PaymentContext, result, handled, handlerRuns, setHeaders,
                 settleCalls, settleResult, final>>

\* await initPromise resumes: initPromise = null, then the bazaar check
InitAwaited(r) ==
  /\ pc[r] = "awaitInit"
  /\ initState = "resolved"
  /\ initPromise' = "null"
  /\ AwaitBazaarOrVerify(r, context[r])
  /\ UNCHANGED <<adapterVars, appVars, serverVars, bazaarPromise, request, context,
                 x402PaymentContext, result, handled, handlerRuns, setHeaders,
                 settleCalls, settleResult, final>>

\* await initPromise throws: the rejection leaves the hook
InitAwaitThrows(r) ==
  /\ pc[r] = "awaitInit"
  /\ initState = "rejected"
  /\ pc' = [pc EXCEPT ![r] = "done"]
  /\ final' = [final EXCEPT ![r] = UnhandledError]
  /\ UNCHANGED <<adapterVars, appVars, serverVars, initPromise, bazaarPromise, request, context,
                 x402PaymentContext, verifyCalls, result, handled,
                 handlerRuns, setHeaders, settleCalls, settleResult>>

\* Mutant: without the .catch, a failed import rejects bazaarPromise and the
\* rejection leaves the hook
BazaarAwaited_FailureIsFatal(r) ==
  /\ pc[r] = "awaitBazaar"
  /\ bazaarState \in {"registered", "failed"}
  /\ IF bazaarState = "failed"
     THEN /\ pc' = [pc EXCEPT ![r] = "done"]
          /\ final' = [final EXCEPT ![r] = UnhandledError]
          /\ UNCHANGED <<bazaarPromise, verifyCalls>>
     ELSE /\ bazaarPromise' = "null"
          /\ CallVerify(r, context[r])
          /\ UNCHANGED final
  /\ UNCHANGED <<adapterVars, appVars, serverVars, initPromise, request, context,
                 x402PaymentContext, result, handled, handlerRuns, setHeaders,
                 settleCalls, settleResult>>

\* Mutant: the hook goes on without waiting for the import to finish
BazaarAwaited_NotAwaited(r) ==
  /\ pc[r] = "awaitBazaar"
  /\ bazaarPromise' = "null"
  /\ CallVerify(r, context[r])
  /\ UNCHANGED <<adapterVars, appVars, serverVars, initPromise, request, context,
                 x402PaymentContext, result, handled, handlerRuns, setHeaders,
                 settleCalls, settleResult, final>>

\* await bazaarPromise resumes: bazaarPromise = null, then processHTTPRequest
BazaarAwaited(r) ==
  /\ pc[r] = "awaitBazaar"
  /\ bazaarState \in {"registered", "failed"}
  /\ bazaarPromise' = "null"
  /\ CallVerify(r, context[r])
  /\ UNCHANGED <<adapterVars, appVars, serverVars, initPromise, request, context,
                 x402PaymentContext, result, handled, handlerRuns, setHeaders,
                 settleCalls, settleResult, final>>

\* processHTTPRequest answers: the switch on result.type
VerifyReturns(r) ==
  /\ pc[r] = "awaitVerify"
  /\ \E res \in ProcessResults :
       /\ result' = [result EXCEPT ![r] = res]
       /\ CASE res.type = "no-payment-required" ->
                 /\ pc' = [pc EXCEPT ![r] = "handler"]
                 /\ UNCHANGED <<x402PaymentContext, final>>
            [] res.type = "payment-error" ->
                 /\ pc' = [pc EXCEPT ![r] = "done"]
                 /\ final' = [final EXCEPT ![r] =
                      DeliverReplacement(PaymentErrorResponse(res.response),
                                         setHeaders[r])]
                 /\ UNCHANGED x402PaymentContext
            [] res.type = "payment-verified" ->
                 /\ pc' = [pc EXCEPT ![r] = "handler"]
                 /\ x402PaymentContext' = [x402PaymentContext EXCEPT
                      ![r] = VerifiedPaymentContext(res, context[r])]
                 /\ UNCHANGED final
            [] OTHER ->
                 /\ pc' = [pc EXCEPT ![r] = "done"]
                 /\ final' = [final EXCEPT ![r] = UnhandledError]
                 /\ UNCHANGED x402PaymentContext
  /\ UNCHANGED <<adapterVars, appVars, serverVars, initPromise, bazaarPromise, request, context,
                 verifyCalls, handled, handlerRuns, setHeaders, settleCalls,
                 settleResult>>

----------------------------------------------------------------------------
(* The route handler and onAfterHandle                                     *)

\* The route handler runs and leaves ctx.response and ctx.set
HandlerReturns(r) ==
  /\ pc[r] = "handler"
  /\ \E h \in HandlerResults :
       /\ handled' = [handled EXCEPT ![r] = h]
       /\ setHeaders' = [setHeaders EXCEPT ![r] = h.setHeaders]
  /\ handlerRuns' = [handlerRuns EXCEPT ![r] = @ + 1]
  /\ pc' = [pc EXCEPT ![r] = "afterHandle"]
  /\ UNCHANGED <<adapterVars, appVars, serverVars, initPromise, bazaarPromise, request, context,
                 x402PaymentContext, verifyCalls, result, settleCalls,
                 settleResult, final>>

\* Mutant: onAfterHandle does not look at the slot
Populated_Always(slot) == TRUE

\* The slot holds a verified payment
Populated(slot) == slot # NoPaymentContext

\* Mutant: the slot is one for the plugin, not one for each request
AfterHandle_PluginWideSlot(r) ==
  /\ pc[r] = "afterHandle"
  /\ IF ~Populated(x402PaymentContext[1]) \/ SkipsSettlement(handled[r])
     THEN /\ pc' = [pc EXCEPT ![r] = "done"]
          /\ final' = [final EXCEPT ![r] = Deliver(handled[r], setHeaders[r])]
          /\ UNCHANGED settleCalls
     ELSE /\ pc' = [pc EXCEPT ![r] = "awaitSettle"]
          /\ settleCalls' = [settleCalls EXCEPT ![r] =
               Append(@, SettleArgs(x402PaymentContext[1],
                                    SerializeResponseBody(handled[r])))]
          /\ UNCHANGED final
  /\ UNCHANGED <<adapterVars, appVars, serverVars, initPromise, bazaarPromise, request, context,
                 x402PaymentContext, verifyCalls, result, handled,
                 handlerRuns, setHeaders, settleResult>>

\* onAfterHandle up to its return or to the settle call
AfterHandle(r) ==
  /\ pc[r] = "afterHandle"
  /\ IF ~Populated(x402PaymentContext[r]) \/ SkipsSettlement(handled[r])
     THEN /\ pc' = [pc EXCEPT ![r] = "done"]
          /\ final' = [final EXCEPT ![r] = Deliver(handled[r], setHeaders[r])]
          /\ UNCHANGED settleCalls
     ELSE /\ pc' = [pc EXCEPT ![r] = "awaitSettle"]
          /\ settleCalls' = [settleCalls EXCEPT ![r] =
               Append(@, SettleArgs(x402PaymentContext[r],
                                    SerializeResponseBody(handled[r])))]
          /\ UNCHANGED final
  /\ UNCHANGED <<adapterVars, appVars, serverVars, initPromise, bazaarPromise, request, context,
                 x402PaymentContext, verifyCalls, result, handled,
                 handlerRuns, setHeaders, settleResult>>

\* Mutant: a settle call that throws is made again
SettleReturns_Retries(r) ==
  /\ pc[r] = "awaitSettle"
  /\ \E res \in SettleResults(settleCalls[r][Len(settleCalls[r])]
                                .transportContext.responseBody) :
       /\ settleResult' = [settleResult EXCEPT ![r] = res]
       /\ setHeaders' = [setHeaders EXCEPT ![r] = HeadersAfterSettle(@, res)]
       /\ IF res.how = "rejected" /\ Len(settleCalls[r]) < 2
          THEN /\ settleCalls' = [settleCalls EXCEPT
                                    ![r] = Append(@, @[Len(@)])]
               /\ UNCHANGED <<pc, final>>
          ELSE /\ final' = [final EXCEPT ![r] =
                              ResponseAfterSettle(handled[r], setHeaders[r], res)]
               /\ pc' = [pc EXCEPT ![r] = "done"]
               /\ UNCHANGED settleCalls
  /\ UNCHANGED <<adapterVars, appVars, serverVars, initPromise, bazaarPromise, request, context,
                 x402PaymentContext, verifyCalls, result, handled,
                 handlerRuns>>

\* processSettlement answers (or throws): the rest of onAfterHandle
SettleReturns(r) ==
  /\ pc[r] = "awaitSettle"
  /\ \E res \in SettleResults(settleCalls[r][Len(settleCalls[r])]
                                .transportContext.responseBody) :
       /\ settleResult' = [settleResult EXCEPT ![r] = res]
       /\ setHeaders' = [setHeaders EXCEPT ![r] = HeadersAfterSettle(@, res)]
       /\ final' = [final EXCEPT ![r] =
                      ResponseAfterSettle(handled[r], setHeaders[r], res)]
  /\ pc' = [pc EXCEPT ![r] = "done"]
  /\ UNCHANGED <<adapterVars, appVars, serverVars, initPromise, bazaarPromise, request, context,
                 x402PaymentContext, verifyCalls, result, handled,
                 handlerRuns, settleCalls>>

----------------------------------------------------------------------------
Next ==
  \/ InitializeResolves
  \/ InitializeRejects
  \/ BazaarLoads
  \/ BazaarFails
  \/ \E r \in Reqs : BeforeHandle(r)
  \/ \E r \in Reqs : InitAwaited(r)
  \/ \E r \in Reqs : InitAwaitThrows(r)
  \/ \E r \in Reqs : BazaarAwaited(r)
  \/ \E r \in Reqs : VerifyReturns(r)
  \/ \E r \in Reqs : HandlerReturns(r)
  \/ \E r \in Reqs : AfterHandle(r)
  \/ \E r \in Reqs : SettleReturns(r)

Spec == Init /\ [][Next]_vars

----------------------------------------------------------------------------
(* Two plugins stacked on one app.  Each is built with                     *)
(* syncFacilitatorOnStart = false and without the bazaar extension, as in  *)
(* the tests; their scoped hooks are lifted onto the app and run in the    *)
(* order of registration on the one context of the request.  Both derive   *)
(* the property x402PaymentContext of that context.                        *)

\* httpServer.requiresPayment(context) of a plugin with the given route table
requiresPaymentIn(table, c) == (c.method \o " " \o c.path) \in table

\* The route tables of the tests' servers: nothing protected, or the route
InitStacked ==
  /\ routes = PlainRoutes
  /\ hasExtension = FALSE
  /\ paywall = "undefined"
  /\ InitPlugin
  /\ ~syncFacilitatorOnStart
  /\ bazaarPromise = "null"
  /\ appRoutes \in [Insts -> {{}, ProtectedRoutes}]
  /\ AppIdle
  /\ AdapterIdle

\* The request is received: each derive puts an empty holder on the context,
\* the later one over the earlier.
AppReceive ==
  /\ appPc = "new"
  /\ \E rq \in RequestCases : appRequest' = rq
  /\ appSlot' = NoPaymentContext
  /\ appPc' = "beforeHandle"
  /\ appAt' = 1
  /\ UNCHANGED <<adapterVars, pluginVars>>
  /\ UNCHANGED <<appRoutes, appSlotWrites, appSlotReads, appConsulted,
                 appVerifyCalls, appResult,
                 appHandlerRuns, appResponse, appSetHeaders,
                 appSettleCalls, appSettleResult, appFinal>>

\* Mutant: the app keeps the hooks of the first plugin only, as it would
\* if the plugins shared a name
AppAdvance_Deduplicated(i, phase, following) ==
  appPc' = following /\ appAt' = 1

\* After the hook of plugin i in a phase: the same phase of the next plugin,
\* or the phase that follows
AppAdvance(i, phase, following) ==
  IF i + 1 \in Insts
  THEN appPc' = phase /\ appAt' = i + 1
  ELSE appPc' = following /\ appAt' = 1

\* onBeforeHandle of plugin i up to the processHTTPRequest call or its return
AppBeforeHandle(i) ==
  LET c == BuildContext(i, appRequest) IN
  /\ appPc = "beforeHandle" /\ appAt = i
  /\ appConsulted' = [appConsulted EXCEPT ![i] = @ + 1]
  /\ IF ~requiresPaymentIn(appRoutes[i], c)
     THEN /\ AppAdvance(i, "beforeHandle", "handler")
          /\ UNCHANGED appVerifyCalls
     ELSE /\ appPc' = "awaitVerify"
          /\ appVerifyCalls' = [appVerifyCalls EXCEPT
               ![i] = Append(@, [context |-> c, paywallConfig |-> paywallConfig])]
          /\ UNCHANGED appAt
  /\ UNCHANGED <<adapterVars, pluginVars>>
  /\ UNCHANGED <<appRoutes, appRequest, appSlot, appSlotWrites, appSlotReads,
                 appResult, appHandlerRuns,
                 appResponse, appSetHeaders, appSettleCalls,
                 appSettleResult, appFinal>>

\* processHTTPRequest of plugin i answers: the switch on result.type.  A
\* returned Response, or an error, ends the lifecycle.
AppVerifyReturns(i) ==
  /\ appPc = "awaitVerify" /\ appAt = i
  /\ \E res \in ProcessResults :
       /\ appResult' = [appResult EXCEPT ![i] = res]
       /\ CASE res.type = "no-payment-required" ->
                 /\ AppAdvance(i, "beforeHandle", "handler")
                 /\ UNCHANGED <<appSlot, appSlotWrites, appFinal>>
            [] res.type = "payment-error" ->
                 /\ appPc' = "done"
                 /\ appFinal' = DeliverReplacement(
                                  PaymentErrorResponse(res.response), appSetHeaders)
                 /\ UNCHANGED <<appSlot, appSlotWrites, appAt>>
            [] res.type = "payment-verified" ->
                 /\ AppAdvance(i, "beforeHandle", "handler")
                 /\ appSlot' = VerifiedPaymentContext(
                                 res, appVerifyCalls[i][Len(appVerifyCalls[i])].context)
                 /\ appSlotWrites' = appSlotWrites + 1
                 /\ UNCHANGED appFinal
            [] OTHER ->
                 /\ appPc' = "done"
                 /\ appFinal' = UnhandledError
                 /\ UNCHANGED <<appSlot, appSlotWrites, appAt>>
  /\ UNCHANGED <<adapterVars, pluginVars>>
  /\ UNCHANGED <<appRoutes, appRequest, appSlotReads, appConsulted, appVerifyCalls,
                 appHandlerRuns, appResponse, appSetHeaders,
                 appSettleCalls, appSettleResult>>

\* The route handler runs
AppHandlerReturns ==
  /\ appPc = "handler"
  /\ \E h \in HandlerResults :
       /\ appResponse' = h
       /\ appSetHeaders' = h.setHeaders
  /\ appHandlerRuns' = appHandlerRuns + 1
  /\ appPc' = "afterHandle"
  /\ UNCHANGED <<adapterVars, pluginVars>>
  /\ UNCHANGED <<appRoutes, appAt, appRequest, appSlot, appSlotWrites,
                 appSlotReads, appConsulted,
                 appVerifyCalls, appResult, appSettleCalls,
                 appSettleResult, appFinal>>

\* A Response returned by onAfterHandle, as the ctx.response the next hook
\* sees and the framework sends
AppReturned(response, resp) ==
  [response EXCEPT !.kind = "Response", !.status = resp.status,
                   !.value = JStr(resp.body), !.headers = resp.headers]

\* ctx.response after the settle call of an onAfterHandle has answered
AppResponseAfterSettle(response, res) ==
  CASE res.how = "resolved" /\ res.success -> response
    [] res.how = "resolved" /\ ~res.success ->
         AppReturned(response, SettlementFailedResponse(res.errorReason))
    [] OTHER ->
         AppReturned(response, SettlementFailedResponse(ErrorMessage(res)))

\* The last onAfterHandle has returned: the response goes out
AppFinish(i, response, headers) ==
  IF i + 1 \in Insts
  THEN UNCHANGED appFinal
  ELSE appFinal' = Deliver(response, headers)

\* onAfterHandle of plugin i up to its return or to the settle call
AppAfterHandle(i) ==
  /\ appPc = "afterHandle" /\ appAt = i
  /\ appSlotReads' = appSlotReads + 1
  /\ IF ~Populated(appSlot) \/ SkipsSettlement(appResponse)
     THEN /\ AppAdvance(i, "afterHandle", "done")
          /\ AppFinish(i, appResponse, appSetHeaders)
          /\ UNCHANGED appSettleCalls
     ELSE /\ appPc' = "awaitSettle"
          /\ appSettleCalls' = [appSettleCalls EXCEPT ![i] =
               Append(@, SettleArgs(appSlot, SerializeResponseBody(appResponse)))]
          /\ UNCHANGED <<appAt, appFinal>>
  /\ UNCHANGED <<adapterVars, pluginVars>>
  /\ UNCHANGED <<appRoutes, appRequest, appSlot, appSlotWrites, appConsulted,
                 appVerifyCalls,
                 appResult, appHandlerRuns, appResponse, appSetHeaders,
                 appSettleResult>>

\* processSettlement of plugin i answers (or throws): the rest of its
\* onAfterHandle
AppSettleReturns(i) ==
  /\ appPc = "awaitSettle" /\ appAt = i
  /\ \E res \in SettleResults(appSettleCalls[i][Len(appSettleCalls[i])]
                                .transportContext.responseBody) :
       /\ appSettleResult' = [appSettleResult EXCEPT ![i] = res]
       /\ appSetHeaders' = HeadersAfterSettle(appSetHeaders, res)
       /\ appResponse' = AppResponseAfterSettle(appResponse, res)
       /\ AppFinish(i, AppResponseAfterSettle(appResponse, res),
                    HeadersAfterSettle(appSetHeaders, res))
  /\ AppAdvance(i, "afterHandle", "done")
  /\ UNCHANGED <<adapterVars, pluginVars>>
  /\ UNCHANGED <<appRoutes, appRequest, appSlot, appSlotWrites, appSlotReads,
                 appConsulted, appVerifyCalls,
                 appResult, appHandlerRuns, appSettleCalls>>

NextStacked ==
  \/ AppReceive
  \/ \E i \in Insts : AppBeforeHandle(i)
  \/ \E i \in Insts : AppVerifyReturns(i)
  \/ AppHandlerReturns
  \/ \E i \in Insts : AppAfterHandle(i)
  \/ \E i \in Insts : AppSettleReturns(i)

SpecStacked == InitStacked /\ [][NextStacked]_vars

----------------------------------------------------------------------------
(* An ElysiaAdapter built on a request to /search, and the calls of the    *)
(* x402 core on it                                                         *)

\* The content types of the requests
ContentTypes ==
  { HeaderAbsent, HeaderPresent(TxtApplicationJson),
    HeaderPresent(TxtApplicationJsonUtf8), HeaderPresent(TxtTextPlain),
    HeaderPresent(TxtApplicationJsonUpper) }

\* ctx.body: an object parsed from JSON, or a text
ParsedBodies == { JObj(<< <<TxtTemp, JNum(72)>> >>), JStr(TxtOk) }

InitAdapter ==
  /\ routes = PlainRoutes
  /\ hasExtension = FALSE
  /\ paywall = "undefined"
  /\ InitPlugin
  /\ ~syncFacilitatorOnStart
  /\ bazaarPromise = "null"
  /\ appRoutes = [i \in Insts |-> ProtectedRoutes]
  /\ AppIdle
  /\ adapterPairs \in PairLists(MaxParams)
  /\ \E contentType \in ContentTypes, body \in ParsedBodies :
       adapterCtx = Ctx(RequestUrl(adapterPairs), contentType, body)
  /\ capturedAdapter = ElysiaAdapter(adapterCtx)
  /\ adapterCall = NoCall

AdapterGetPath ==
  /\ adapterCall' = Call("getPath", <<>>, getPath(capturedAdapter))
  /\ UNCHANGED <<pluginVars, appVars, adapterCtx, adapterPairs, capturedAdapter>>

AdapterGetBody ==
  /\ adapterCall' = Call("getBody", <<>>, getBody(capturedAdapter))
  /\ UNCHANGED <<pluginVars, appVars, adapterCtx, adapterPairs, capturedAdapter>>

AdapterGetQueryParam ==
  /\ \E name \in QueryKeys \cup {TxtMissing} :
       adapterCall' = Call("getQueryParam", name,
                           getQueryParam(capturedAdapter, name))
  /\ UNCHANGED <<pluginVars, appVars, adapterCtx, adapterPairs, capturedAdapter>>

AdapterGetQueryParams ==
  /\ adapterCall' = Call("getQueryParams", <<>>, getQueryParams(capturedAdapter))
  /\ UNCHANGED <<pluginVars, appVars, adapterCtx, adapterPairs, capturedAdapter>>

NextAdapter ==
  \/ AdapterGetPath
  \/ AdapterGetBody
  \/ AdapterGetQueryParam
  \/ AdapterGetQueryParams

SpecAdapter == InitAdapter /\ [][NextAdapter]_vars

----------------------------------------------------------------------------
(* Vocabulary of the properties                                            *)

Done(r) == pc[r] = "done"

\* The request's route is not in the route table
Unprotected(r) ==
  /\ pc[r] # "new"
  /\ (request[r].method \o " " \o request[r].path) \notin ProtectedRoutes

Verified(r) == result[r].type = "payment-verified"

\* The settle call of r answered with an explicit failure, or threw
SettleFailed(r) ==
  \/ settleResult[r].how = "rejected"
  \/ settleResult[r].how = "resolved" /\ ~settleResult[r].success

\* The reason of a failed settlement: the result's errorReason, or for a
\* thrown value its message ("Unknown error" when it is not an Error)
FailureReason(res) ==
  CASE res.how = "resolved" -> res.errorReason
    [] res.how = "rejected" /\ res.isError -> res.message
    [] OTHER -> TxtUnknownError

\* {"error":"Settlement failed","details":  as the client reads it
SettlementFailedPrefix ==
  <<"{", "\"", "e", "r", "r", "o", "r", "\"", ":", "\"", "S", "e", "t", "t",
    "l", "e", "m", "e", "n", "t", " ", "f", "a", "i", "l", "e", "d", "\"",
    ",", "\"", "d", "e", "t", "a", "i", "l", "s", "\"", ":">>

----------------------------------------------------------------------------
(* Settlement failure                                                      *)

C2_FailureBodyNeverContainsHandlerBody ==
  \A r \in Reqs :
    Done(r) /\ SettleFailed(r) =>
      /\ final[r].body # HandlerBody(handled[r])
      /\ ~Contains(final[r].body, HandlerBody(handled[r]))

----------------------------------------------------------------------------
(* When settlement is attempted                                            *)

\* onAfterHandle has taken its decision for r
Decided(r) == pc[r] \in {"awaitSettle", "done"} /\ handlerRuns[r] > 0

\* C3: settle is attempted if and only if the request's payment context is
\* populated and the status of the handler's response is below 400.
C3_SettleIffVerifiedAndBelow400 ==
  \A r \in Reqs :
    Decided(r) =>
      ( Len(settleCalls[r]) > 0
          <=> ( Populated(x402PaymentContext[r])
                /\ HandlerStatus(handled[r]) < 400 ) )

\* C4: for a verified request whose handler answered with a status in
\* [200,399], settle is called exactly once, with the payload, requirements
\* and extensions verify returned and the context verify was called with.
C4_SettleOnceWithVerifiedArguments ==
  \A r \in Reqs :
    Done(r) /\ Verified(r) /\ handlerRuns[r] > 0
      /\ HandlerStatus(handled[r]) \in 200..399 =>
        /\ Len(settleCalls[r]) = 1
        /\ settleCalls[r][1].paymentPayload = result[r].paymentPayload
        /\ settleCalls[r][1].paymentRequirements = result[r].paymentRequirements
        /\ settleCalls[r][1].declaredExtensions = result[r].declaredExtensions
        /\ Len(verifyCalls[r]) = 1
        /\ settleCalls[r][1].transportContext.request = verifyCalls[r][1].context

\* C5: for a verified request whose handler answered with a status of 400 or
\* more, settle is not called and the handler's status, body and headers go
\* out as the handler left them.
C5_HandlerErrorPassesThrough ==
  \A r \in Reqs :
    Done(r) /\ Verified(r) /\ handlerRuns[r] > 0
      /\ HandlerStatus(handled[r]) >= 400 =>
        /\ settleCalls[r] = <<>>
        /\ final[r].kind = "response"
        /\ final[r].status = HandlerStatus(handled[r])
        /\ final[r].body = HandlerBody(handled[r])
        /\ final[r].headers = MergeSet(handled[r].headers, handled[r].setHeaders)

----------------------------------------------------------------------------
(* Unprotected routes                                                      *)

\* C6: for a request to a route that needs no payment, verify and settle are
\* never called and the handler's status and body go out unchanged.
C6_UnprotectedNeverVerifiedNorSettled ==
  \A r \in Reqs :
    Unprotected(r) =>
      /\ verifyCalls[r] = <<>>
      /\ settleCalls[r] = <<>>
      /\ ~Populated(x402PaymentContext[r])
      /\ Done(r) => /\ final[r].kind = "response"
                    /\ final[r].status = HandlerStatus(handled[r])
                    /\ final[r].body = HandlerBody(handled[r])

\* An unprotected request answered with the handler's own error status.
C6_Witness ==
  \E r \in Reqs :
    /\ Unprotected(r) /\ Done(r) /\ handlerRuns[r] = 1
    /\ final[r].status = 404

\* C7: a request to an unprotected route never waits on initialization or on
\* the extension load: it is never suspended in onBeforeHandle, and until it
\* is answered its next step can always be taken, whatever the state of the
\* two promises and of the other requests.
C7_UnprotectedNeverWaits ==
  \A r \in Reqs :
    Unprotected(r) /\ ~Done(r) =>
      /\ pc[r] \in {"handler", "afterHandle"}
      /\ ENABLED (HandlerReturns(r) \/ AfterHandle(r))

\* An unprotected request is answered while initialization is still pending
\* and a protected request is waiting on it.
C7_Witness ==
  \E r, q \in Reqs :
    /\ Unprotected(r) /\ Done(r)
    /\ initState = "pending" /\ initPromise = "promise"
    /\ pc[q] = "awaitInit"

----------------------------------------------------------------------------
(* Payment errors                                                          *)

PaymentErrored(r) == result[r].type = "payment-error"

C9_EveryOutcomeHeaderOnResponse ==
  \A r \in Reqs :
    PaymentErrored(r) /\ Done(r) =>
      \A i \in 1..Len(result[r].response.headers) :
        /\ HeadersHas(final[r].headers, result[r].response.headers[i][1])
        /\ HeadersGet(final[r].headers, result[r].response.headers[i][1])
             = result[r].response.headers[i][2]

\* The media type of a content-type value, without its parameters
MediaType(v) == IF v = "text/html; charset=utf-8" THEN "text/html" ELSE v

\* C10: the response to a payment error is text/html with the outcome's body
\* verbatim when the outcome is HTML-flagged, and otherwise application/json
\* with the JSON encoding of the outcome's body, {} when there is no body.
C10_PaymentErrorContentType ==
  \A r \in Reqs :
    PaymentErrored(r) /\ Done(r) =>
      LET o == result[r].response IN
      IF o.isHtml
      THEN /\ MediaType(final[r].headers["content-type"]) = "text/html"
           /\ o.body.t = "string" => final[r].body = o.body.s
      ELSE /\ final[r].headers["content-type"] = "application/json"
           /\ final[r].body = IF o.body.t = "undefined"
                              THEN <<"{", "}">>
                              ELSE JSONstringify(o.body)

\* One request answered with the HTML paywall, another with the {} of an
\* outcome without a body.
C10_Witness ==
  \E r, q \in Reqs :
    /\ PaymentErrored(r) /\ Done(r) /\ result[r].response.isHtml
    /\ final[r].body = TxtPaywall
    /\ PaymentErrored(q) /\ Done(q) /\ ~result[q].response.isHtml
    /\ result[q].response.body = JUndefined
    /\ final[q].body = <<"{", "}">>

----------------------------------------------------------------------------
(* Settlement success                                                      *)

SettleSucceeded(r) ==
  settleResult[r].how = "resolved" /\ settleResult[r].success

\* The header names of a settlement result
SettlementKeys(res) == {res.headers[i][1] : i \in 1..Len(res.headers)}

\* C11: when the settle call of a request answers with a success, the status
\* and body sent are the handler's, every header of the settlement result is
\* on the response with the settlement's value, also where the handler had
\* set a header of that name, and every other header the handler set is on
\* the response with the handler's value.
C11_SuccessAddsSettlementHeaders ==
  \A r \in Reqs :
    Done(r) /\ SettleSucceeded(r) =>
      /\ final[r].kind = "response"
      /\ final[r].status = HandlerStatus(handled[r])
      /\ final[r].body = HandlerBody(handled[r])
      /\ \A i \in 1..Len(settleResult[r].headers) :
           /\ settleResult[r].headers[i][1] \in DOMAIN final[r].headers
           /\ final[r].headers[settleResult[r].headers[i][1]]
                = settleResult[r].headers[i][2]
      /\ \A k \in DOMAIN handled[r].setHeaders \ SettlementKeys(settleResult[r]) :
           /\ k \in DOMAIN final[r].headers
           /\ final[r].headers[k] = handled[r].setHeaders[k]
      /\ DOMAIN final[r].headers =
           DOMAIN handled[r].headers \cup DOMAIN handled[r].setHeaders
             \cup SettlementKeys(settleResult[r])

\* A settled request whose handler had set payment-response and x-handler:
\* the receipt replaced the first, the second went out as set.
C11_Witness ==
  \E r \in Reqs :
    /\ Done(r) /\ SettleSucceeded(r)
    /\ "payment-response" \in DOMAIN handled[r].setHeaders
    /\ handled[r].setHeaders["payment-response"] = "set-by-handler"
    /\ final[r].headers["payment-response"] = "encoded-receipt"
    /\ final[r].headers["x-handler"] = "set-by-handler"

----------------------------------------------------------------------------
(* Failures of the external calls                                          *)

\* C12: when processHTTPRequest throws or rejects, the request is answered
\* with a 402 response, its handler does not run, and no error leaves
\* onBeforeHandle.
C12_VerifyErrorIs402 ==
  \A r \in Reqs :
    result[r].type = "throws" =>
      /\ final[r].kind = "response"
      /\ final[r].status = 402
      /\ handlerRuns[r] = 0

\* C13: a failure of initialize, of the extension load, of verify or of settle
\* is converted to an outcome: every answered request got a response built by
\* the plugin or by its handler, never an error that left a hook; and after
\* a rejected initialize a protected request is still taken to verify.
C13_NoExternalFailureEscapes ==
  \A r \in Reqs :
    /\ Done(r) => final[r].kind = "response"
    /\ initState = "rejected" => pc[r] # "awaitInit" \/ ENABLED InitAwaited(r)

\* C14: when processSettlement throws an Error, the body of the 402 sent does
\* not contain the message of that Error.
C14_ThrownMessageNotInBody ==
  \A r \in Reqs :
    Done(r) /\ settleResult[r].how = "rejected" /\ settleResult[r].isError
      /\ settleResult[r].message # <<>> =>
        ~Contains(final[r].body, settleResult[r].message)

----------------------------------------------------------------------------
(* The payment header: requests with every combination of the two headers, *)
(* followed up to the processHTTPRequest call                              *)

HeaderValues(v) == {Absent, "", v}

\* Requests to both routes with payment-signature and x-payment each absent,
\* empty or holding a value
HeaderRequests ==
  { [method |-> "GET", path |-> p, sig |-> s, xpay |-> x] :
      p \in {"/health", "/api/weather"},
      s \in HeaderValues("sig-v2"), x \in HeaderValues("legacy-v1") }

HeaderBeforeHandle(r) == \E rq \in HeaderRequests : OnBeforeHandle(r, rq)

NextHeaders ==
  \/ InitializeResolves
  \/ BazaarLoads
  \/ BazaarFails
  \/ \E r \in Reqs : HeaderBeforeHandle(r)
  \/ \E r \in Reqs : InitAwaited(r)
  \/ \E r \in Reqs : BazaarAwaited(r)

SpecHeaders == Init /\ [][NextHeaders]_vars

\* The header holds a value
NonEmpty(v) == v \notin {Absent, ""}

\* C15: the paymentHeader of the context handed to processHTTPRequest is the
\* value of payment-signature when that header holds a non-empty value,
\* whatever x-payment holds; otherwise it is what x-payment holds, or absent
\* when x-payment is absent.  It is never anything but one of the two.
C15_SignatureBeforeLegacy ==
  \A r \in Reqs : \A i \in 1..Len(verifyCalls[r]) :
    LET h == verifyCalls[r][i].context.paymentHeader IN
    /\ NonEmpty(request[r].sig) => h = request[r].sig
    /\ ~NonEmpty(request[r].sig) => h = request[r].xpay
    /\ h \in {request[r].sig, request[r].xpay, Absent}

\* Verify was called for a request with both headers set and for a request
\* with an empty payment-signature and a legacy value.
C15_Witness ==
  \E r, q \in Reqs :
    /\ Len(verifyCalls[r]) = 1
    /\ request[r].sig = "sig-v2" /\ request[r].xpay = "legacy-v1"
    /\ verifyCalls[r][1].context.paymentHeader = "sig-v2"
    /\ Len(verifyCalls[q]) = 1
    /\ request[q].sig = "" /\ request[q].xpay = "legacy-v1"
    /\ verifyCalls[q][1].context.paymentHeader = "legacy-v1"

\* C16: whatever the two headers hold, the paymentHeader of the context is a
\* non-empty text or absent, never the empty text.
C16_EmptyIsAbsent ==
  \A r \in Reqs : pc[r] # "new" => context[r].paymentHeader # ""

----------------------------------------------------------------------------
(* Initialization                                                          *)

\* C17: when the plugin is built with syncFacilitatorOnStart, initialize has
\* been called exactly once, whatever requests have arrived and however far
\* they are; every request suspended on initialization waits on that one
\* call, and resumes exactly when it has resolved.
C17_InitializeCalledOnce ==
  /\ syncFacilitatorOnStart => initializeCalls = 1
  /\ \A r \in Reqs :
       pc[r] = "awaitInit" =>
         /\ syncFacilitatorOnStart
         /\ initState # "not-called"
         /\ (ENABLED InitAwaited(r)) <=> (initState = "resolved")

\* Two protected requests arrived before initialization resolved and are both
\* suspended on it.
C17_Witness ==
  /\ syncFacilitatorOnStart /\ initState = "pending"
  /\ \A r \in Reqs : pc[r] = "awaitInit"

----------------------------------------------------------------------------
(* Access granted without payment                                          *)

NoPaymentNeeded(r) == result[r].type = "no-payment-required"

\* C18: when processHTTPRequest answers no-payment-required, the request goes
\* on to its handler, its payment context stays empty, processSettlement is
\* never called for it, and the handler's status, body and headers are sent
\* as the handler left them, whatever the status.
C18_NoPaymentRequiredPassesThrough ==
  \A r \in Reqs :
    NoPaymentNeeded(r) =>
      /\ pc[r] \in {"handler", "afterHandle", "done"}
      /\ x402PaymentContext[r] = NoPaymentContext
      /\ settleCalls[r] = <<>>
      /\ settleResult[r] = NotSettled
      /\ Done(r) =>
           /\ handlerRuns[r] = 1
           /\ final[r] = HttpResponse(HandlerStatus(handled[r]),
                                      MergeSet(handled[r].headers,
                                               handled[r].setHeaders),
                                      HandlerBody(handled[r]))

\* Two requests let through without payment and answered: one with the 201
\* of its handler, one with a 404.
C18_Witness ==
  \E r, q \in Reqs :
    /\ NoPaymentNeeded(r) /\ Done(r) /\ final[r].status = 201
    /\ NoPaymentNeeded(q) /\ Done(q) /\ final[q].status = 404

----------------------------------------------------------------------------
(* Two stacked plugins                                                     *)

AppDone == appPc = "done"

\* Plugin i ended the request in its onBeforeHandle
AppEndedBy(i) == appResult[i].type \in {"payment-error", "throws"}

\* The classifier of plugin i passes the request
AppPasses(i) == ~requiresPaymentIn(appRoutes[i], BuildContext(i, appRequest))

C20_SettlesOnlyOwnVerifiedPayment ==
  \A i \in Insts :
    /\ appConsulted[i] > 0 /\ AppPasses(i) => appSettleCalls[i] = <<>>
    /\ appSettleCalls[i] # <<>> =>
         /\ appResult[i].type = "payment-verified"
         /\ appSettleCalls[i][1].paymentPayload = appResult[i].paymentPayload
         /\ appSettleCalls[i][1].transportContext.request
              = appVerifyCalls[i][1].context
    /\ \A j \in Insts \ {i} :
         appResult[i].type = "payment-verified"
           /\ appResult[j].type # "payment-verified" =>
             appSettleCalls[j] = <<>>

----------------------------------------------------------------------------
(* The payment context of a request                                        *)

\* C21: whatever other requests are in flight, every processSettlement call
\* made for a request carries the payload, requirements and extensions that
\* processHTTPRequest returned for that same request and the context that
\* processHTTPRequest was called with for it, and the slot of a request holds
\* nothing but what was verified for that request.
C21_SettleArgumentsAreTheRequestsOwn ==
  \A r \in Reqs :
    /\ Populated(x402PaymentContext[r]) =>
         /\ Verified(r)
         /\ x402PaymentContext[r] = VerifiedPaymentContext(result[r], context[r])
    /\ \A i \in 1..Len(settleCalls[r]) :
         /\ Verified(r)
         /\ settleCalls[r][i].paymentPayload = result[r].paymentPayload
         /\ settleCalls[r][i].paymentRequirements = result[r].paymentRequirements
         /\ settleCalls[r][i].declaredExtensions = result[r].declaredExtensions
         /\ settleCalls[r][i].transportContext.request = verifyCalls[r][1].context
         /\ settleCalls[r][i].transportContext.request.adapter = r

\* Two requests in flight at once, verified with different payloads, each
\* with its settle call made.
C21_Witness ==
  \E r, q \in Reqs :
    /\ pc[r] = "awaitSettle" /\ pc[q] = "awaitSettle"
    /\ result[r].paymentPayload = "payloadA"
    /\ result[q].paymentPayload = "payloadB"
    /\ settleCalls[r][1].paymentPayload = "payloadA"
    /\ settleCalls[q][1].paymentPayload = "payloadB"

----------------------------------------------------------------------------
(* Order of the stages within a request                                    *)

\* The request is suspended in onBeforeHandle
InBeforeHandle(r) == pc[r] \in {"awaitInit", "awaitBazaar", "awaitVerify"}

\* C22: while a request is in onBeforeHandle its handler has not run and no
\* settle call was made for it; the handler of a request to a protected route
\* runs only once processHTTPRequest has been called and has answered with
\* an outcome that lets it through; and a settle call is made only after the
\* handler has run and left its response.
C22_VerifyThenHandlerThenSettle ==
  \A r \in Reqs :
    /\ pc[r] = "new" \/ InBeforeHandle(r) =>
         /\ handlerRuns[r] = 0 /\ handled[r] = NotHandled
         /\ settleCalls[r] = <<>>
    /\ InBeforeHandle(r) => result[r] = NoResult
    /\ pc[r] = "handler" => handlerRuns[r] = 0 /\ settleCalls[r] = <<>>
    /\ (pc[r] = "handler" \/ handlerRuns[r] > 0) /\ ~Unprotected(r) =>
         /\ Len(verifyCalls[r]) = 1
         /\ result[r].type \in {"no-payment-required", "payment-verified"}
    /\ settleCalls[r] # <<>> =>
         /\ handlerRuns[r] = 1 /\ handled[r] # NotHandled
         /\ pc[r] \in {"awaitSettle", "done"}
         /\ settleCalls[r][1].transportContext.responseBody
              = SerializeResponseBody(handled[r])

\* A verified request whose handler ran and whose settle call has answered.
C22_Witness ==
  \E r \in Reqs :
    /\ Done(r) /\ Verified(r) /\ handlerRuns[r] = 1
    /\ Len(settleCalls[r]) = 1 /\ settleResult[r] # NotSettled

----------------------------------------------------------------------------
(* Arguments of processHTTPRequest                                         *)

\* C23: every processHTTPRequest call is made with the paywallConfig the
\* plugin was built with as its second argument, and with a context whose
\* path and method are those of the request the call is made for.
C23_PaywallConfigForwarded ==
  \A r \in Reqs : \A i \in 1..Len(verifyCalls[r]) :
    /\ verifyCalls[r][i].paywallConfig = paywallConfig
    /\ verifyCalls[r][i].context.path = request[r].path
    /\ verifyCalls[r][i].context.method = request[r].method
    /\ verifyCalls[r][i].context.adapter = r

\* Both requests went to the protected route and verify was called for each.
C23_Witness ==
  \A r \in Reqs :
    /\ Len(verifyCalls[r]) = 1
    /\ verifyCalls[r][1].context.path = "/api/weather"
    /\ verifyCalls[r][1].paywallConfig = "paywall-config"

----------------------------------------------------------------------------
(* ElysiaAdapter: body and query parameters                                *)

\* The request's Content-Type contains application/json
JsonContentType(ctx) ==
  ctx.contentType.present /\ Contains(ctx.contentType.value, TxtApplicationJson)

\* C24: getBody returns the body the framework parsed when the request's
\* Content-Type contains application/json, and undefined for every other
\* content type and when there is none.
C24_BodyOnlyForJson ==
  adapterCall.method = "getBody" =>
    /\ JsonContentType(adapterCtx) => adapterCall.value = adapterCtx.body
    /\ ~JsonContentType(adapterCtx) => adapterCall.value = JUndefined

\* getBody on a request sent as application/json; charset=utf-8 returned the
\* parsed object.
C24_Witness ==
  /\ adapterCall.method = "getBody"
  /\ adapterCtx.contentType = HeaderPresent(TxtApplicationJsonUtf8)
  /\ adapterCall.value = JObj(<< <<TxtTemp, JNum(72)>> >>)

\* The values the client wrote for a parameter, in the order written
Written(name) ==
  LET hits == SelectSeq(adapterPairs, LAMBDA p : p[1] = name) IN
  [i \in 1..Len(hits) |-> hits[i][2]]

\* The names of the parameters the client wrote
WrittenNames == {adapterPairs[i][1] : i \in 1..Len(adapterPairs)}

\* C25: getQueryParam(name) is undefined for a parameter that is not in the
\* query string, its value for one that occurs once, and the array of its
\* values in the order written for one that occurs more than once; and the
\* object getQueryParams returns holds, under every name in the query
\* string, what getQueryParam returns for that name.
C25_QueryParamsAgree ==
  /\ adapterCall.method = "getQueryParam" =>
       adapterCall.value =
         CASE Len(Written(adapterCall.arg)) = 0 -> QUndefined
           [] Len(Written(adapterCall.arg)) = 1 ->
                QString(Written(adapterCall.arg)[1])
           [] OTHER -> QArray(Written(adapterCall.arg))
  /\ adapterCall.method = "getQueryParams" =>
       \A name \in WrittenNames :
         ObjectGet(adapterCall.value, name) = getQueryParam(capturedAdapter, name)


----------------------------------------------------------------------------
(* Initialization and the extension load                                    *)

\* C26: with syncFacilitatorOnStart, processHTTPRequest has been called for
\* a request only when initialize() has resolved, whether the request waited
\* on initPromise itself or arrived after another request had cleared it.
C26_VerifyOnlyAfterInitialized ==
  \A r \in Reqs :
    syncFacilitatorOnStart /\ verifyCalls[r] # <<>> => initState = "resolved"

\* One request waited on initPromise, another arrived after it was cleared,
\* and processHTTPRequest was called for both
C26_Witness ==
  /\ syncFacilitatorOnStart
  /\ \E r1, r2 \in Reqs :
       /\ awaitedInit[r1] /\ verifyCalls[r1] # <<>>
       /\ ~awaitedInit[r2] /\ verifyCalls[r2] # <<>>


\* The request has resumed from await initPromise
ResumedFromInit(r) == awaitedInit[r] /\ pc[r] # "awaitInit"

\* The request r starts in this step and its route requires payment
StartsProtected(r) ==
  pc[r] = "new" /\ pc'[r] # "new" /\ requiresPayment(context'[r])

\* C27: once initialize() has resolved and a protected request has resumed
\* from waiting on it, initPromise is null; from then on it stays null, and
\* a protected request that starts goes to the extension check or to
\* processHTTPRequest and is never suspended on initPromise.
C27_ClearedStaysCleared ==
  [][/\ (initState' = "resolved" /\ \E r \in Reqs : ResumedFromInit(r)')
          => initPromise' = "null"
     /\ (initState = "resolved" /\ initPromise = "null")
          => /\ initPromise' = "null"
             /\ \A r \in Reqs :
                  StartsProtected(r)
                    => /\ pc'[r] \in {"awaitBazaar", "awaitVerify"}
                       /\ ~awaitedInit'[r]]_vars

\* A request waited on initPromise and resumed; another started after the
\* reference was cleared and is in processHTTPRequest without having waited
C27_Witness ==
  /\ initState = "resolved"
  /\ initPromise = "null"
  /\ \E r1, r2 \in Reqs :
       /\ ResumedFromInit(r1)
       /\ ~awaitedInit[r2] /\ pc[r2] = "awaitVerify"


\* The extension import failed
LoadFailed == bazaarState = "failed"

\* C28: after a failed extension import, a request suspended on
\* bazaarPromise can resume, and when it leaves the await it has called
\* processHTTPRequest with its own context and is waiting for the answer;
\* a request in processHTTPRequest can still get every answer; an
\* unprotected request never waited and is answered by its handler alone.
C28_FailedLoadIsNotFatal ==
  [][LoadFailed =>
       \A r \in Reqs :
         /\ pc[r] = "awaitBazaar" =>
              /\ ENABLED BazaarAwaited(r)
              /\ pc'[r] \in {"awaitBazaar", "awaitVerify"}
              /\ pc'[r] = "awaitVerify" =>
                   /\ verifyCalls'[r] = <<[context |-> context[r],
                                           paywallConfig |-> paywallConfig]>>
                   /\ final'[r] = NoResponseYet
         /\ pc[r] = "awaitVerify" =>
              \A res \in ProcessResults :
                ENABLED (VerifyReturns(r) /\ result'[r] = res)
         /\ Unprotected(r) =>
              /\ verifyCalls[r] = <<>>
              /\ Done(r) => final[r] = Deliver(handled[r], setHeaders[r])]_vars

\* The import failed; the one protected request waited on it, went through
\* processHTTPRequest with a verified payment and is answered; the other
\* request was to an unprotected route and is answered too
C28_Witness ==
  /\ LoadFailed
  /\ bazaarPromise = "null"
  /\ \E r1, r2 \in Reqs :
       /\ Verified(r1) /\ Done(r1) /\ final[r1] # UnhandledError
       /\ Unprotected(r2) /\ Done(r2)


----------------------------------------------------------------------------
(* Construction: the plugin built on every route configuration, on a       *)
(* server with and without the extension, followed up to the               *)
(* processHTTPRequest call of requests to the protected route              *)

InitConstruct ==
  /\ routes \in RoutesConfigs
  /\ hasExtension \in BOOLEAN
  /\ paywall \in Paywalls
  /\ InitPlugin
  /\ appRoutes = [i \in Insts |-> ProtectedRoutes]
  /\ AppIdle
  /\ AdapterIdle

\* A request to the route that every configuration protects
ProtectedBeforeHandle(r) ==
  \E rq \in {q \in RequestCases : requiresPayment(BuildContext(r, q))} :
    OnBeforeHandle(r, rq)

NextConstruct ==
  \/ InitializeResolves
  \/ InitializeRejects
  \/ BazaarLoads
  \/ BazaarFails
  \/ \E r \in Reqs : ProtectedBeforeHandle(r)
  \/ \E r \in Reqs : InitAwaited(r)
  \/ \E r \in Reqs : InitAwaitThrows(r)
  \/ \E r \in Reqs : BazaarAwaited(r)

SpecConstruct == InitConstruct /\ [][NextConstruct]_vars

\* Some route of the configuration declares the bazaar extension
SomeRouteDeclaresBazaar ==
  \/ routes \in RouteConfigs /\ DeclaresBazaar(routes)
  \/ routes \in MultiRouteConfigs
       /\ \E k \in DOMAIN routes : DeclaresBazaar(routes[k])

\* C29: the extension import was started once if some route of the
\* configuration, in either form, declares the bazaar extension and the
\* server did not have it when the plugin was built, and was not started
\* otherwise; it is never started later.  registerExtension is called at
\* most once, and never when the import was not started.
C29_LoadStartedOnceIffNeeded ==
  /\ importCalls = IF SomeRouteDeclaresBazaar /\ ~hasExtension THEN 1 ELSE 0
  /\ bazaarState # "not-started" <=> importCalls = 1
  /\ registerCalls <= importCalls
  /\ registerCalls = 1 <=> bazaarState = "registered"

\* A single-route configuration that declares the extension among others, on
\* a server without it: the import was started, the extension registered,
\* and both requests have gone through the hook to processHTTPRequest
C29_Witness ==
  /\ routes = RouteConfigWith({"bazaar", "other"})
  /\ ~hasExtension
  /\ importCalls = 1
  /\ registerCalls = 1
  /\ \A r \in Reqs : verifyCalls[r] # <<>>


----------------------------------------------------------------------------
(* The payment context of a request                                        *)

\* C30: with two plugins stacked on the app, the payment context of the
\* request is empty when its first hook starts, holds a payment only when
\* a processHTTPRequest call for the request answered payment-verified, and
\* over the request is assigned at most once and read at most once.
C30_SlotWrittenAndReadOnce ==
  /\ appPc = "beforeHandle" /\ appAt = 1 => ~Populated(appSlot)
  /\ Populated(appSlot) =>
       \E i \in Insts : appResult[i].type = "payment-verified"
  /\ appSlotWrites <= 1
  /\ appSlotReads <= 1

\* The same of each request to a server with one plugin, where the one
\* assignment is in the payment-verified branch and the one read is at the
\* top of onAfterHandle
OnePluginSlotWrittenOnce ==
  \A r \in Reqs :
    /\ pc[r] \in {"new", "awaitInit", "awaitBazaar", "awaitVerify"} =>
         ~Populated(x402PaymentContext[r])
    /\ Populated(x402PaymentContext[r]) =>
         /\ Verified(r)
         /\ x402PaymentContext[r] = VerifiedPaymentContext(result[r], context[r])
    /\ Len(verifyCalls[r]) <= 1
    /\ handlerRuns[r] <= 1


----------------------------------------------------------------------------
(* The response body handed to processSettlement                           *)

\* The bytes of the handler's output v: the text of a string, the JSON text
\* of an object or of a number, nothing for undefined and null
OutputBytes(v) ==
  CASE v.t = "string" -> v.s
    [] v.t \in {"undefined", "null"} -> <<>>
    [] OTHER -> JSONstringify(v)

\* C31: the responseBody of every processSettlement call is the body text of
\* the Response the handler returned, or the bytes of the value it returned:
\* the text of a string, the JSON text of an object, the digits of a number;
\* it is empty only when the handler's body is empty.
C31_ResponseBodyIsHandlerOutput ==
  \A r \in Reqs : \A i \in 1..Len(settleCalls[r]) :
    LET b == settleCalls[r][i].transportContext.responseBody
        h == handled[r]
    IN /\ h.kind = "Response" => b = h.value.s
       /\ h.kind # "Response" => b = OutputBytes(AsObject(h))
       /\ b = <<>> => (h.kind \in {"Response", "value"} /\ HandlerBody(h) = <<>>)

\* The same for the handlers that do not return a number
SerializedUnlessNumber ==
  \A r \in Reqs : \A i \in 1..Len(settleCalls[r]) :
    AsObject(handled[r]).t # "number" =>
      /\ handled[r].kind = "Response" =>
           settleCalls[r][i].transportContext.responseBody = handled[r].value.s
      /\ handled[r].kind # "Response" =>
           settleCalls[r][i].transportContext.responseBody
             = OutputBytes(AsObject(handled[r]))


----------------------------------------------------------------------------
(* A settle call that throws                                               *)

\* The settle call of r threw or its promise was rejected
SettleThrew(r) == settleResult[r].how = "rejected"

\* The JSON text {"error":"Settlement failed","details":details}
SettlementFailedBody(details) ==
  JSONstringify(JObj(<< <<TxtError, JStr(TxtSettlementFailed)>>,
                        <<TxtDetails, JStr(details)>> >>))

----------------------------------------------------------------------------
(* Termination: every external call a request waits on answers in the end. *)
(* Where a request goes depends on the type of the processHTTPRequest      *)
(* answer, on whether the handler's response skips settlement, and on      *)
(* nothing else the collaborators return: one answer of each kind is       *)
(* followed.                                                               *)

LiveProcessResults ==
  { NoPaymentRequired, VerifyThrows,
    CHOOSE e \in PaymentErrors : TRUE,
    CHOOSE v \in PaymentVerifieds : TRUE }

LiveHandlerResults ==
  { CHOOSE h \in HandlerResults : SkipsSettlement(h),
    CHOOSE h \in HandlerResults : ~SkipsSettlement(h) }

LiveVerifyReturns(r) ==
  VerifyReturns(r) /\ result'[r] \in LiveProcessResults

LiveHandlerReturns(r) ==
  HandlerReturns(r) /\ handled'[r] \in LiveHandlerResults

LiveSettleReturns(r) ==
  SettleReturns(r) /\ settleResult'[r].errorReason = <<>>

\* Every step but the arrival of a request
Progress ==
  \/ InitializeResolves
  \/ InitializeRejects
  \/ BazaarLoads
  \/ BazaarFails
  \/ \E r \in Reqs : InitAwaited(r)
  \/ \E r \in Reqs : InitAwaitThrows(r)
  \/ \E r \in Reqs : BazaarAwaited(r)
  \/ \E r \in Reqs : LiveVerifyReturns(r)
  \/ \E r \in Reqs : LiveHandlerReturns(r)
  \/ \E r \in Reqs : AfterHandle(r)
  \/ \E r \in Reqs : LiveSettleReturns(r)

NextFair == Progress \/ \E r \in Reqs : BeforeHandle(r)

\* initialize() and the extension import settle, every await resumes, the
\* handler returns and the hooks run on: while something other than the
\* arrival of a request can happen, something does
Fairness == WF_vars(Progress)

SpecFair == Init /\ [][NextFair]_vars /\ Fairness

\* The request has arrived
Arrived(r) == pc[r] # "new"

\* C33: every request that has arrived is answered in the end; a request
\* that is done has a final response and a request that is not done has
\* none; the final response, once there, never changes; processHTTPRequest
\* and processSettlement are each called at most once for a request.
C33_EveryRequestEndsOnce ==
  /\ \A r \in Reqs : Arrived(r) ~> Done(r)
  /\ [](\A r \in Reqs :
          /\ Done(r) <=> final[r] # NoResponseYet
          /\ Len(verifyCalls[r]) <= 1
          /\ Len(settleCalls[r]) <= 1)
  /\ [][\A r \in Reqs :
          final[r] # NoResponseYet => final'[r] = final[r] /\ Done(r)']_vars

\* A request that waited on initialization, went through processHTTPRequest,
\* its handler and processSettlement, and is answered; the other request is
\* answered too
C33_Witness ==
  /\ \A r \in Reqs : Done(r) /\ final[r] # NoResponseYet
  /\ \E r \in Reqs :
       /\ awaitedInit[r]
       /\ Len(verifyCalls[r]) = 1
       /\ Len(settleCalls[r]) = 1


----------------------------------------------------------------------------
(* The Verification Stage as a function of its inputs                      *)

\* onBeforeHandle of a protected request r is over
VerificationEnded(r) ==
  /\ pc[r] \in {"handler", "afterHandle", "awaitSettle", "done"}
  /\ requiresPayment(context[r])

\* The request was answered by onBeforeHandle, its handler never ran
EndedInVerification(r) == Done(r) /\ handlerRuns[r] = 0

\* What the switch on the processHTTPRequest answer res leaves for a request
\* with the context c: the payment context, and the response when the
\* request ends there
OutcomeContext(res, c) ==
  IF res.type = "payment-verified"
  THEN VerifiedPaymentContext(res, c)
  ELSE NoPaymentContext

OutcomeResponse(res) ==
  CASE res.type = "payment-error" ->
         DeliverReplacement(PaymentErrorResponse(res.response), NoHeaders)
    [] res.type \in {"payment-verified", "no-payment-required"} -> NoResponseYet
    [] OTHER -> UnhandledError

\* C34: the outcome of the Verification Stage of a protected request is
\* determined by its context and by what processHTTPRequest answers for it:
\* the stage ends with one processHTTPRequest answer, the payment context and
\* the response are the ones that answer gives, whatever initialize() and
\* the extension import did and whatever the other request did; two requests
\* with the same context and the same answer have the same outcome.
C34_VerificationIsDeterministic ==
  /\ \A r \in Reqs :
       VerificationEnded(r) =>
         /\ Len(verifyCalls[r]) = 1
         /\ result[r] \in ProcessResults
         /\ x402PaymentContext[r] = OutcomeContext(result[r], context[r])
         /\ EndedInVerification(r) => final[r] = OutcomeResponse(result[r])
         /\ ~EndedInVerification(r) => OutcomeResponse(result[r]) = NoResponseYet
  /\ \A r1, r2 \in Reqs :
       /\ VerificationEnded(r1) /\ VerificationEnded(r2)
       /\ request[r1] = request[r2] /\ result[r1] = result[r2]
       => /\ EndedInVerification(r1) <=> EndedInVerification(r2)
          /\ EndedInVerification(r1) => final[r1] = final[r2]
          /\ Populated(x402PaymentContext[r1]) <=> Populated(x402PaymentContext[r2])

\* The same while initialize() has not rejected
DeterministicUnlessInitRejected ==
  initState # "rejected" => C34_VerificationIsDeterministic


----------------------------------------------------------------------------
(* The status of a payment-error response                                  *)

\* The protected-request hook of the server aborted the request
AbortedByHook(r) == PaymentErrored(r) /\ result[r].response.status = 403

\* C35: the response to a request for which processHTTPRequest answered
\* payment-error has the status that answer carries and no other; the
\* request aborted by the protected-request hook is answered with 403.
C35_StatusIsTheOutcomeStatus ==
  \A r \in Reqs :
    /\ PaymentErrored(r) =>
         /\ final[r].kind = "response"
         /\ final[r].status = result[r].response.status
    /\ AbortedByHook(r) => final[r].status = 403 /\ final[r].status # 402

\* A request aborted by the hook and a request rejected with 412 are
\* answered
C35_Witness ==
  \E r1, r2 \in Reqs :
    /\ AbortedByHook(r1) /\ Done(r1)
    /\ PaymentErrored(r2) /\ result[r2].response.status = 412 /\ Done(r2)


----------------------------------------------------------------------------
(* The paywall provider                                                    *)

\* C36: registerPaywallProvider has been called once when the plugin was
\* built with a paywall provider and never when it was built without one,
\* at every point of the life of the plugin: no request adds a call.
C36_PaywallRegisteredOnceIfGiven ==
  /\ paywall = "paywall-provider" => registerPaywallCalls = 1
  /\ paywall = "undefined" => registerPaywallCalls = 0

\* A plugin built with a provider, after both requests went through
\* onBeforeHandle to processHTTPRequest
C36_Witness ==
  /\ paywall = "paywall-provider"
  /\ registerPaywallCalls = 1
  /\ \A r \in Reqs : Len(verifyCalls[r]) = 1


----------------------------------------------------------------------------
(* A plugin built with syncFacilitatorOnStart = false                      *)

\* C37: when the plugin was built with syncFacilitatorOnStart = false,
\* initialize() has never been called, initPromise is null, and no request
\* is or was suspended on it: a protected request goes from its arrival to
\* the extension check and processHTTPRequest.
C37_NoSyncNeverInitializes ==
  ~syncFacilitatorOnStart =>
    /\ initializeCalls = 0
    /\ initState = "not-called"
    /\ initPromise = "null"
    /\ \A r \in Reqs : pc[r] # "awaitInit" /\ ~awaitedInit[r]

\* Built without the sync, both requests went to the protected route and
\* processHTTPRequest was called for both
C37_Witness ==
  /\ ~syncFacilitatorOnStart
  /\ initializeCalls = 0
  /\ \A r \in Reqs : requiresPayment(context[r]) /\ Len(verifyCalls[r]) = 1


----------------------------------------------------------------------------
(* The settlement failure response and the handler                         *)

\* Two requests with the same request and the same verified payment, whose
\* settle calls failed in the same way
SameFailure(r1, r2) ==
  /\ Done(r1) /\ Done(r2)
  /\ request[r1] = request[r2]
  /\ result[r1] = result[r2]
  /\ SettleFailed(r1) /\ SettleFailed(r2)
  /\ settleResult[r1] = settleResult[r2]

\* C38: two requests that differ only in what their handlers returned and
\* whose settle calls failed with the same reason are sent the same status,
\* the same headers and the same body.
C38_FailureIndependentOfHandler ==
  \A r1, r2 \in Reqs :
    SameFailure(r1, r2) =>
      /\ final[r1].status = final[r2].status
      /\ final[r1].headers = final[r2].headers
      /\ final[r1].body = final[r2].body

\* The same of the status and the body alone
FailureStatusAndBodyIndependentOfHandler ==
  \A r1, r2 \in Reqs :
    SameFailure(r1, r2) =>
      /\ final[r1].status = final[r2].status
      /\ final[r1].body = final[r2].body


----------------------------------------------------------------------------
(* processHTTPRequest and the extension import                             *)

\* The extension import was started and has not finished
LoadInFlight == bazaarState = "pending"

\* C39: processHTTPRequest has been called for a request only when the
\* extension import, if one was started, has finished, with the extension
\* registered or with a logged failure: no call is made while the import
\* is in flight.
C39_VerifyOnlyAfterLoad ==
  \A r \in Reqs : verifyCalls[r] # <<>> => ~LoadInFlight

\* The import was started and ended; processHTTPRequest was called for both
\* requests, of which one resumed from the import and cleared bazaarPromise
C39_Witness ==
  /\ importCalls = 1
  /\ bazaarState \in {"registered", "failed"}
  /\ bazaarPromise = "null"
  /\ \A r \in Reqs : Len(verifyCalls[r]) = 1


----------------------------------------------------------------------------
(* The two pending references                                              *)

\* The request r resumes in this step from the await of a reference that
\* another request has already cleared
ResumesOnCleared(r) ==
  \/ pc[r] = "awaitInit" /\ pc'[r] # "awaitInit" /\ initPromise = "null"
  \/ pc[r] = "awaitBazaar" /\ pc'[r] # "awaitBazaar" /\ bazaarPromise = "null"

\* C40: initPromise and bazaarPromise hold a promise or null and change only
\* from the promise to null: one that is null stays null.  A request that
\* resumes from a reference already cleared leaves both references, the
\* state of initialize() and of the import and their call counts as they are.
C40_ReferencesOnlyCleared ==
  [][/\ initPromise' \in {"promise", "null"}
     /\ bazaarPromise' \in {"promise", "null"}
     /\ initPromise = "null" => initPromise' = "null"
     /\ bazaarPromise = "null" => bazaarPromise' = "null"
     /\ \A r \in Reqs :
          ResumesOnCleared(r) =>
            /\ initPromise' = initPromise
            /\ bazaarPromise' = bazaarPromise
            /\ UNCHANGED <<initState, initializeCalls, bazaarState,
                           importCalls, registerCalls>>]_vars

\* Both requests waited on initPromise and both have resumed: the second to
\* resume found the reference cleared by the first
C40_Witness ==
  /\ initPromise = "null"
  /\ initState = "resolved"
  /\ \A r \in Reqs : awaitedInit[r] /\ pc[r] \notin {"new", "awaitInit"}

====
